---- MODULE Spec2Model ----
(***************************************************************************)
(* A model of the EDSC emitter of lib/EDSC/MLIREmitter.cpp: the binding    *)
(* table (ssaBindings), the block-binding table (blockBindings), the IR    *)
(* the builder has produced (insts, blocks) and the builder's insertion    *)
(* cursor.  Assertions are modelled as enabled: a failed assert or         *)
(* llvm_unreachable halts the process (fatal # NoError), after which no    *)
(* operation runs.                                                         *)
(***************************************************************************)
EXTENDS Integers, Sequences, FiniteSets, TLC

VARIABLES
  ssaBindings,    \* MLIREmitter::ssaBindings : symbolic node -> IR value
  blockBindings,  \* MLIREmitter::blockBindings : StmtBlock -> IR block
  insts,          \* every instruction created so far, by creation index
  blocks,         \* the IR blocks: owner, argument types, instruction order
  cursor,         \* the builder's insertion point (block, iterator)
  fresh,          \* types of the nodes created by Expr b(type), in creation order
  fatal           \* NoError, or the assertion that halted the process

vars == <<ssaBindings, blockBindings, insts, blocks, cursor, fresh, fatal>>

----------------------------------------------------------------------------
(* Bounds of the model *)

\* nodes the literal / function-argument / region-view entry points may
\* create; they run before anything of the client's tree is bound or lowered
MaxFresh == 4

\* nodes those entry points may have created in an emitter that goes on to
\* lower the client's tree
MaxMixedFresh == 0

\* the same bound for a client that only makes nodes: arguments, literals
\* and region views
MaxSetUp == 8

\* instructions a client of add, sub and mul may create
MaxArith == 2

\* literals a client of the literal entry points alone may bind
MaxLiterals == 3

----------------------------------------------------------------------------
(* Types and values *)

Ty(c, e) == [c |-> c, e |-> e]
IndexTy == Ty("scalar", "index")
I32Ty == Ty("scalar", "i32")
F32Ty == Ty("scalar", "f32")
MemRefF32Ty == Ty("memref", "f32")
VectorI32Ty == Ty("vector", "i32")
TensorF32Ty == Ty("tensor", "f32")
NoneTy == Ty("scalar", "none")

Val(k, i) == [k |-> k, i |-> i]
\* nullptr
Null == Val("null", 0)
InstVal(i) == Val("inst", i)
\* the induction variable of loop instruction i (an argument of its body block)
IvVal(i) == Val("iv", i)
FArgVal(pos) == Val("farg", pos)
\* argument pos of IR block b
BArgVal(b, pos) == Val("barg", b * 10 + pos)

NoError == "none"

\* The function the builder emits into: an index argument and a buffer
\* of shape ? x 0.
FuncArgs ==
  << [ty |-> IndexTy, shape |-> <<>>],
     [ty |-> MemRefF32Ty, shape |-> <<-1, 0>>] >>

----------------------------------------------------------------------------
(* The symbolic tree the client has built (pure construction, done before  *)
(* emission).  A node's identity is its name; the nodes created during      *)
(* emission by Expr b(type) are named fresh1, fresh2, ...                   *)

Node(kind, name, children, ty) ==
  [kind |-> kind, name |-> name, children |-> children, ty |-> ty]

Tree ==
     "zeroIndex" :> Node("Unbound", "", <<>>, IndexTy)
  @@ "oneIndex"  :> Node("Unbound", "", <<>>, IndexTy)
  @@ "pL"        :> Node("Unbound", "", <<>>, IndexTy)
  @@ "pU"        :> Node("Unbound", "", <<>>, IndexTy)
  @@ "pS"        :> Node("Unbound", "", <<>>, IndexTy)
  @@ "lhsA"      :> Node("Unbound", "", <<>>, IndexTy)
  @@ "lhsB"      :> Node("Unbound", "", <<>>, IndexTy)
  @@ "lhsC"      :> Node("Unbound", "", <<>>, IndexTy)
  @@ "lhsD"      :> Node("Unbound", "", <<>>, IndexTy)
  @@ "lhsE"      :> Node("Unbound", "", <<>>, IndexTy)
  @@ "lhsF"      :> Node("Unbound", "", <<>>, IndexTy)
  @@ "argB"      :> Node("Unbound", "", <<>>, IndexTy)
  @@ "addE"      :> Node("Binary", "add", <<"pL", "pU">>, IndexTy)
  @@ "mulE"      :> Node("Binary", "mul", <<"addE", "pU">>, IndexTy)
  @@ "storeE"    :> Node("Variadic", "store", <<"pL">>, NoneTy)
  @@ "forA"      :> Node("For", "for", <<"pL", "pU", "pS">>, IndexTy)
  @@ "subE"      :> Node("Binary", "sub", <<"lhsA", "pL">>, IndexTy)
  @@ "forB"      :> Node("For", "for", <<"subE", "addE", "oneIndex">>, IndexTy)
  @@ "forC"      :> Node("For", "for", <<"addE", "mulE", "oneIndex">>, IndexTy)
  @@ "forD"      :> Node("For", "for", <<"zeroIndex", "oneIndex", "addE">>, IndexTy)
  @@ "forE"      :> Node("For", "for", <<"lhsA", "lhsB", "oneIndex">>, IndexTy)
  @@ "otherE"    :> Node("StmtBlockLikeOther", "block", <<>>, NoneTy)

StaticNodes == DOMAIN Tree

ForNodes == {e \in StaticNodes : Tree[e].kind = "For"}

FreshName(k) == "fresh" \o ToString(k)

\* Stmt: lhs = rhs { enclosed }
Stmt(lhs, rhs, enclosed) == [lhs |-> lhs, rhs |-> rhs, enclosed |-> enclosed]

Stmts ==
  << Stmt("lhsA", "forA", <<2, 3>>),   \* 1: lhsA = for(pL, pU, pS) { 2; 3 }
     Stmt("lhsB", "forB", <<4>>),      \* 2: lhsB = for(lhsA - pL, pL + pU, 1) { 4 }
     Stmt("lhsC", "storeE", <<5>>),    \* 3: store(pL) { 5 }
     Stmt("lhsD", "addE", <<6>>),      \* 4: lhsD = pL + pU { 6 }
     Stmt("lhsE", "pS", <<>>),         \* 5: lhsE = pS
     Stmt("lhsF", "forE", <<>>) >>     \* 6: lhsF = for(lhsA, lhsB, 1)

\* StmtBlock: declared argument nodes, their types, body statements
StmtBlock(args, argTypes, body) ==
  [args |-> args, argTypes |-> argTypes, body |-> body]

StmtBlocks ==
  << StmtBlock(<<"argB">>, <<IndexTy>>, <<3>>),
     StmtBlock(<<"addE">>, <<IndexTy>>, <<>>) >>

\* The statements the client hands to emitStmt: those that are enclosed in
\* no other statement of its program, or head a list of it.
TopStmts == {1, 3, 5}

\* The statement lists the client hands to emitStmts.
StmtLists == { <<3, 5>> }

----------------------------------------------------------------------------
(* The emitter and its builder as one value S, so that a handler and the   *)
(* handlers it calls are functions from state to state.                     *)

Fatal(S, msg) == [S EXCEPT !.fatal = msg]

Halted(S) == S.fatal # NoError

\* Value::getDefiningInst: the instruction a value is a result of, 0 (null)
\* for a function argument, a block argument or an induction variable
getDefiningInst(v) == IF v.k = "inst" THEN v.i ELSE 0

\* getForInductionVarOwner: the loop whose induction variable v is, 0 if none
getForInductionVarOwner(v) == IF v.k = "iv" THEN v.i ELSE 0

\* AffineForOp::getBody: the body block of loop instruction i
getBody(S, i) == CHOOSE b \in 1..Len(S.blocks) : S.blocks[b].owner = i

TypeOf(S, v) ==
  CASE v.k = "inst" -> S.insts[v.i].ty
    [] v.k = "iv" -> IndexTy
    [] v.k = "farg" -> FuncArgs[v.i].ty
    [] v.k = "barg" -> S.blocks[v.i \div 10].argTypes[v.i % 10]
    [] OTHER -> NoneTy

\* the list seq with id inserted before the element ip (0: the end iterator)
InsertBefore(seq, ip, id) ==
  IF ip = 0 THEN Append(seq, id)
  ELSE LET p == CHOOSE j \in 1..Len(seq) : seq[j] = ip
       IN SubSeq(seq, 1, p - 1) \o <<id>> \o SubSeq(seq, p, Len(seq))

\* FuncBuilder::create<Op>: the new instruction goes before the insertion
\* point, which keeps designating the same position.
create(S, op, operands, attr, ty) ==
  [S EXCEPT
     !.insts = Append(@, [op |-> op, operands |-> operands,
                          attr |-> attr, ty |-> ty]),
     !.blocks[S.cursor.block].body =
        InsertBefore(@, S.cursor.ip, Len(S.insts) + 1)]

\* the result of the instruction create has just made in S
created(S) == InstVal(Len(S.insts))

\* FuncBuilder::setInsertionPoint(block, iterator)
setInsertionPoint(S, block, ip) ==
  [S EXCEPT !.cursor = [block |-> block, ip |-> ip]]

\* FuncBuilder::setInsertionPointToStart(block)
setInsertionPointToStart(S, block) ==
  setInsertionPoint(S, block,
    IF S.blocks[block].body = <<>> THEN 0 ELSE S.blocks[block].body[1])

\* AffineForOp::createBody: the loop's body block, with the induction
\* variable as its argument; the builder's cursor does not move
createBody(S, forInst) ==
  [S EXCEPT !.blocks = Append(@, [owner |-> forInst, argTypes |-> <<IndexTy>>,
                                  body |-> <<>>])]

\* FuncBuilder::createBlock: a new block of the function; the cursor moves
\* to its end
createBlock(S) ==
  [S EXCEPT !.blocks = Append(@, [owner |-> 0, argTypes |-> <<>>,
                                  body |-> <<>>]),
            !.cursor = [block |-> Len(S.blocks) + 1, ip |-> 0]]

\* Block::addArgument(type): S with one more argument on block b
addArgument(S, b, ty) == [S EXCEPT !.blocks[b].argTypes = Append(@, ty)]

\* Expr b(type): a new Unbound node
newExpr(S, ty) == [S EXCEPT !.fresh = Append(@, ty)]

\* the node newExpr has just made in S
newest(S) == FreshName(Len(S.fresh))

Kind(e) == IF e \in StaticNodes THEN Tree[e].kind ELSE "Unbound"

DeclaredType(S, e) ==
  IF e \in StaticNodes THEN Tree[e].ty
  ELSE LET k == CHOOSE j \in 1..Len(S.fresh) : FreshName(j) = e IN S.fresh[k]

----------------------------------------------------------------------------
(* Op selection by element category *)

\* the element type of a vector or a buffer, the type itself otherwise
getElementType(S, v) ==
  IF TypeOf(S, v).c \in {"vector", "memref"}
  THEN Ty("scalar", TypeOf(S, v).e)
  ELSE TypeOf(S, v)

isIndexElement(S, v) == getElementType(S, v) = IndexTy
isIntElement(S, v) ==
  /\ getElementType(S, v).c = "scalar"
  /\ getElementType(S, v).e \in {"i1", "i32", "i64"}
isFloatElement(S, v) ==
  /\ getElementType(S, v).c = "scalar"
  /\ getElementType(S, v).e \in {"bf16", "f16", "f32", "f64"}

\* AffineMap::get(dimCount, symbolCount, results, rangeSizes = {})
AffineMapGet(dimCount, symbolCount, results) ==
  [dims |-> dimCount, symbols |-> symbolCount, results |-> results]

\* makeComposedAffineApply(builder, location, map, {a, b})
makeComposedAffineApply(S, map, operands) ==
  create(S, "affine.apply", operands, <<map>>, IndexTy)

\* a handler's state on return, and the value it returns
Ret(S, v) == [s |-> S, v |-> v]

\* builder->create<Op>(...)->getResult(): S holds the new instruction
Made(S) == Ret(S, created(S))

add(S, a, b) ==
  IF isIndexElement(S, a)
  THEN Made(makeComposedAffineApply(S, AffineMapGet(2, 0, <<"d0 + d1">>),
                               <<a, b>>))
  ELSE IF isIntElement(S, a)
  THEN Made(create(S, "addi", <<a, b>>, <<>>, TypeOf(S, a)))
  ELSE IF ~isFloatElement(S, a)
  THEN Ret(Fatal(S, "Expected float element"), Null)
  ELSE Made(create(S, "addf", <<a, b>>, <<>>, TypeOf(S, a)))

sub(S, a, b) ==
  IF isIndexElement(S, a)
  THEN Made(makeComposedAffineApply(S, AffineMapGet(2, 0, <<"d0 - d1">>),
                               <<a, b>>))
  ELSE IF isIntElement(S, a)
  THEN Made(create(S, "subi", <<a, b>>, <<>>, TypeOf(S, a)))
  ELSE IF ~isFloatElement(S, a)
  THEN Ret(Fatal(S, "Expected float element"), Null)
  ELSE Made(create(S, "subf", <<a, b>>, <<>>, TypeOf(S, a)))

\* a mul that goes the way of add and sub for index operands
mul_affine(S, a, b) ==
  IF isIndexElement(S, a)
  THEN Made(makeComposedAffineApply(S, AffineMapGet(2, 0, <<"d0 * d1">>),
                                    <<a, b>>))
  ELSE IF ~isFloatElement(S, a)
  THEN Made(create(S, "muli", <<a, b>>, <<>>, TypeOf(S, a)))
  ELSE Made(create(S, "mulf", <<a, b>>, <<>>, TypeOf(S, a)))

mul(S, a, b) ==
  IF ~isFloatElement(S, a)
  THEN Made(create(S, "muli", <<a, b>>, <<>>, TypeOf(S, a)))
  ELSE Made(create(S, "mulf", <<a, b>>, <<>>, TypeOf(S, a)))

----------------------------------------------------------------------------
(* The binding table *)

\* bind with operator[] in the place of insert: the last value wins
bind_overwrite(S, e, v) ==
  [S EXCEPT !.ssaBindings = (e :> v) @@ @]

\* bind without the test of insert's result
bind_unchecked(S, e, v) ==
  IF e \in DOMAIN S.ssaBindings THEN S
  ELSE [S EXCEPT !.ssaBindings = (e :> v) @@ @]

\* MLIREmitter::bind: DenseMap::insert does not overwrite; a key already
\* present is the fatal "Double binding!"
bind(S, e, v) ==
  IF e \in DOMAIN S.ssaBindings
  THEN Fatal(S, "Double binding!")
  ELSE [S EXCEPT !.ssaBindings = (e :> v) @@ @]

\* bind(e, <the result of the instruction just created in S>)
bindCreated(S, e) == bind(S, e, created(S))

\* MLIREmitter::bindConstant<Op>(e, args...): bind(e, builder->create<Op>(...))
bindConstant(S, e, op, value, ty) ==
  bindCreated(create(S, op, <<>>, <<value>>, ty), e)

----------------------------------------------------------------------------
(* Expr::build(builder, ssaBindings): the node's own build contract.  It    *)
(* consults the binding table for the operands, materializes the unbound    *)
(* operator applications among them, and yields at most one value: none for *)
(* a zero-result operation, nullptr when an operand has no value.            *)

OpKinds == {"Unary", "Binary", "Ternary", "Variadic"}

\* DeallocOp, StoreOp, ReturnOp ::getOperationName()
ZeroResultOps == {"dealloc", "store", "return"}

\* the state after a build, and its results
Built(S, results) == [s |-> S, results |-> results]

\* the state after a list of emissions, and their values
Rets(S, vs) == [s |-> S, vs |-> vs]

HasNull(vs) == \E i \in 1..Len(vs) : vs[i] = Null

\* the one result as a list of results
One(r) == Built(r.s, <<r.v>>)

\* the first result, nullptr when there is none
Front(results) == IF results = <<>> THEN Null ELSE results[1]

\* v before the values of rest
Cons(v, rest) == Rets(rest.s, <<v>> \o rest.vs)

RECURSIVE build(_, _)
RECURSIVE buildExprs(_, _)
RECURSIVE buildRest(_, _)
RECURSIVE buildOp(_, _)

buildExprs(S, es) ==
  IF es = <<>> THEN Rets(S, <<>>)
  ELSE buildRest(build(S, Head(es)), Tail(es))

buildRest(r, es) == Cons(Front(r.results), buildExprs(r.s, es))

\* the operation of node e on the operand values ops.vs
buildOp(e, ops) ==
  IF Halted(ops.s) \/ HasNull(ops.vs) THEN Built(ops.s, <<Null>>)
  ELSE IF Tree[e].name = "add" THEN One(add(ops.s, ops.vs[1], ops.vs[2]))
  ELSE IF Tree[e].name = "sub" THEN One(sub(ops.s, ops.vs[1], ops.vs[2]))
  ELSE IF Tree[e].name = "mul" THEN One(mul(ops.s, ops.vs[1], ops.vs[2]))
  ELSE IF Tree[e].name \in ZeroResultOps
  THEN Built(create(ops.s, Tree[e].name, ops.vs, <<>>, NoneTy), <<>>)
  ELSE One(Made(create(ops.s, Tree[e].name, ops.vs, <<>>, Tree[e].ty)))

build(S, e) ==
  IF Halted(S) THEN Built(S, <<Null>>)
  ELSE IF e \in DOMAIN S.ssaBindings THEN Built(S, <<S.ssaBindings[e]>>)
  ELSE IF Kind(e) \notin OpKinds THEN Built(S, <<Null>>)
  ELSE buildOp(e, buildExprs(S, Tree[e].children))

----------------------------------------------------------------------------
(* MLIREmitter::emitExpr and emitExprs *)

\* What dereferencing a null defining instruction does is undefined: the
\* process traps, or it goes on with an indeterminate step.
UndefOutcomes == {"trap", "garbage"}

\* the step read through the null instruction when the process goes on
GarbageStep == -1

\* The outcomes to tell apart in S.  A null defining instruction is
\* dereferenced only for a loop step bound to a value that no instruction
\* defines; where no step is so bound every outcome gives the same run.
Outcomes(S) ==
  IF \E e \in ForNodes :
       /\ Tree[e].children[3] \in DOMAIN S.ssaBindings
       /\ S.ssaBindings[Tree[e].children[3]].k \notin {"inst", "null"}
  THEN UndefOutcomes
  ELSE {"trap"}

\* emitExpr without the look-up of the memo table
isBound_never(S, e) == FALSE

\* ssaBindings.find(e) != ssaBindings.end()
isBound(S, e) == e \in DOMAIN S.ssaBindings

\* emitExpr without the two provenance asserts
hasAffineProvenance_always(S, def) == TRUE

\* !def || def->isa<ConstantIndexOp>() || def->isa<AffineApplyOp>() ||
\* def->isa<AffineForOp>()
hasAffineProvenance(S, def) ==
  \/ def = 0
  \/ S.insts[def].op \in {"constant_index", "affine.apply", "affine.for"}

\* emitExpr without the special case for static bounds
bothConstant_never(S, lbDef, ubDef) == FALSE

\* lbDef && ubDef && lbDef->dyn_cast<ConstantIndexOp>() &&
\* ubDef->dyn_cast<ConstantIndexOp>()
bothConstant(S, lbDef, ubDef) ==
  /\ lbDef # 0
  /\ ubDef # 0
  /\ S.insts[lbDef].op = "constant_index"
  /\ S.insts[ubDef].op = "constant_index"

\* the test of the lower bound alone
anyNull_firstOnly(vs) == vs # <<>> /\ vs[1] = Null

\* llvm::any_of(exprs, [](Value *v) { return !v; })
anyNull(vs) == HasNull(vs)

\* the binding error never detected: nullptr is recorded like a value
isBindingError_never(res, expectedEmpty) == FALSE

\* !res && !expectedEmpty
isBindingError(res, expectedEmpty) == res = Null /\ ~expectedEmpty

\* the tail of emitExpr: the binding error return, or the insertion of
\* (e, res) in ssaBindings
finishExpr(S, e, res, expectedEmpty) ==
  IF isBindingError(res, expectedEmpty) THEN Ret(S, Null)
  ELSE IF e \in DOMAIN S.ssaBindings
  THEN Ret(Fatal(S, "insertion failed"), Null)
  ELSE Ret([S EXCEPT !.ssaBindings = (e :> res) @@ @], res)

\* forOp->createBody(); res = forOp->getInductionVar(), forOp being the
\* instruction just created in S
bodyAndInductionVar(S) ==
  Ret(createBody(S, Len(S.insts)), IvVal(Len(S.insts)))

\* the compact form for two constant bounds, the general form otherwise
createFor(S, lb, ub, step) ==
  IF bothConstant(S, getDefiningInst(lb), getDefiningInst(ub))
  THEN bodyAndInductionVar(
         create(S, "affine.for", <<>>,
                <<S.insts[getDefiningInst(lb)].attr[1],
                  S.insts[getDefiningInst(ub)].attr[1], step>>, NoneTy))
  ELSE bodyAndInductionVar(
         create(S, "affine.for", <<lb, ub>>, <<step>>, NoneTy))

\* exprs[2]->getDefiningInst()->cast<ConstantIndexOp>()->getValue(), then
\* the creation of the loop
emitForWithStep(S, lb, ub, stepDef, undef) ==
  IF stepDef = 0
  THEN IF undef = "trap" THEN Ret(Fatal(S, "null dereference"), Null)
       ELSE createFor(S, lb, ub, GarbageStep)
  ELSE IF S.insts[stepDef].op # "constant_index"
  THEN Ret(Fatal(S, "cast<Ty>() argument of incompatible type"), Null)
  ELSE createFor(S, lb, ub, S.insts[stepDef].attr[1])

\* the For case once the three operands have values
emitFor(S, exprs, undef) ==
  IF Len(exprs) # 3 THEN Ret(Fatal(S, "Expected 3 exprs"), Null)
  ELSE IF ~hasAffineProvenance(S, getDefiningInst(exprs[1]))
  THEN Ret(Fatal(S, "lower bound expression does not have affine provenance"),
           Null)
  ELSE IF ~hasAffineProvenance(S, getDefiningInst(exprs[2]))
  THEN Ret(Fatal(S, "upper bound expression does not have affine provenance"),
           Null)
  ELSE emitForWithStep(S, exprs[1], exprs[2], getDefiningInst(exprs[3]), undef)

\* the operator-application case of emitExpr, r being what e.build returned
exprOfBuild(e, r) ==
  IF Halted(r.s) THEN Ret(r.s, Null)
  ELSE IF Len(r.results) > 1
  THEN Ret(Fatal(r.s, "2+-result exprs are not supported"), Null)
  ELSE finishExpr(r.s, e, Front(r.results), r.results = <<>>)

\* the end of the For case, f being the loop's state and induction variable
exprOfFor(e, f) ==
  IF Halted(f.s) THEN f ELSE finishExpr(f.s, e, f.v, FALSE)

\* a For case that records the loop node as nullptr when an operand has no
\* value
forOfExprs_memoFailure(e, r, undef) ==
  IF Halted(r.s) THEN Ret(r.s, Null)
  ELSE IF anyNull(r.vs)
  THEN Ret([r.s EXCEPT !.ssaBindings = (e :> Null) @@ @], Null)
  ELSE exprOfFor(e, emitFor(r.s, r.vs, undef))

\* the For case of emitExpr, r being what emitExprs returned
forOfExprs(e, r, undef) ==
  IF Halted(r.s) \/ anyNull(r.vs) THEN Ret(r.s, Null)
  ELSE exprOfFor(e, emitFor(r.s, r.vs, undef))

RECURSIVE emitExpr(_, _, _)
RECURSIVE emitExprs(_, _, _)
RECURSIVE emitRest(_, _, _)

\* an emitExprs that goes through the list from its end
emitExprs_backwards(S, es, undef) ==
  IF es = <<>> THEN Rets(S, <<>>)
  ELSE LET rest == emitExprs(S, Tail(es), undef)
           first == emitExpr(rest.s, Head(es), undef)
       IN Rets(first.s, <<first.v>> \o rest.vs)

emitExprs(S, es, undef) ==
  IF es = <<>> THEN Rets(S, <<>>)
  ELSE emitRest(emitExpr(S, Head(es), undef), Tail(es), undef)

emitRest(r, es, undef) == Cons(r.v, emitExprs(r.s, es, undef))

emitExpr(S, e, undef) ==
  IF Halted(S) THEN Ret(S, Null)
  ELSE IF isBound(S, e) THEN Ret(S, S.ssaBindings[e])
  ELSE IF Kind(e) \in OpKinds THEN exprOfBuild(e, build(S, e))
  ELSE IF Kind(e) = "For"
  THEN forOfExprs(e, emitExprs(S, Tree[e].children, undef), undef)
  ELSE finishExpr(S, e, Null, FALSE)

----------------------------------------------------------------------------
(* MLIREmitter::emitStmt, emitStmts and emitBlock *)

\* emitStmt without the assert on its zero-result path
isZeroResultOp_always(rhs) == TRUE

\* the assert on the zero-result path of emitStmt
isZeroResultOp(rhs) ==
  rhs \in StaticNodes /\ Tree[rhs].name \in ZeroResultOps

\* emitStmt without its step into the loop
stepIntoLoop_never(S, val) == S

\* builder->setInsertionPointToStart(getForInductionVarOwner(val)->getBody())
stepIntoLoop(S, val) ==
  setInsertionPointToStart(S, getBody(S, getForInductionVarOwner(val)))

\* emitStmt without its last line
restoreCursor_skipped(S, saved) == S

\* builder->setInsertionPoint(block, ip), the last line of emitStmt
restoreCursor(S, saved) == setInsertionPoint(S, saved.block, saved.ip)

RECURSIVE emitStmt(_, _, _)
RECURSIVE emitStmts(_, _, _)
RECURSIVE stmtOfRhs(_, _, _, _)
RECURSIVE stmtBody(_, _, _, _, _)

emitStmts(S, stmts, undef) ==
  IF stmts = <<>> THEN S
  ELSE emitStmts(emitStmt(S, Head(stmts), undef), Tail(stmts), undef)

\* the end of emitStmt, S being the state after the enclosed statements
stmtEnd(S, saved) == IF Halted(S) THEN S ELSE restoreCursor(S, saved)

\* emitStmt from the step into the loop on, S being the state after bind
stmtBody(S, sid, val, saved, undef) ==
  IF Halted(S) THEN S
  ELSE stmtEnd(emitStmts(IF Kind(Stmts[sid].rhs) = "For"
                         THEN stepIntoLoop(S, val) ELSE S,
                         Stmts[sid].enclosed, undef),
               saved)

\* an emitStmt that leaves a bound left-hand side as it is
stmtOfRhs_bindOnce(r, sid, saved, undef) ==
  IF Halted(r.s) THEN r.s
  ELSE IF r.v = Null
  THEN IF isZeroResultOp(Stmts[sid].rhs) THEN r.s
       ELSE Fatal(r.s, "dealloc, store or return expected as the only 0-result ops")
  ELSE stmtBody(IF Stmts[sid].lhs \in DOMAIN r.s.ssaBindings THEN r.s
                ELSE bind(r.s, Stmts[sid].lhs, r.v),
                sid, r.v, saved, undef)

\* an emitStmt whose early return leaves the builder at the start of the
\* block it is in
stmtOfRhs_lapse(r, sid, saved, undef) ==
  IF Halted(r.s) THEN r.s
  ELSE IF r.v = Null
  THEN IF isZeroResultOp(Stmts[sid].rhs)
       THEN setInsertionPointToStart(r.s, r.s.cursor.block)
       ELSE Fatal(r.s, "dealloc, store or return expected as the only 0-result ops")
  ELSE stmtBody(bind(r.s, Stmts[sid].lhs, r.v), sid, r.v, saved, undef)

\* emitStmt from the test of val on, r being what emitExpr returned
stmtOfRhs(r, sid, saved, undef) ==
  IF Halted(r.s) THEN r.s
  ELSE IF r.v = Null
  THEN IF isZeroResultOp(Stmts[sid].rhs) THEN r.s
       ELSE Fatal(r.s, "dealloc, store or return expected as the only 0-result ops")
  ELSE stmtBody(bind(r.s, Stmts[sid].lhs, r.v), sid, r.v, saved, undef)

emitStmt(S, sid, undef) ==
  IF Halted(S) THEN S
  ELSE stmtOfRhs(emitExpr(S, Stmts[sid].rhs, undef), sid, S.cursor, undef)

\* emitBlock without the test of blockBindings
alreadyEmitted_never(S, bid) == FALSE

\* blockBindings.count(block) != 0
alreadyEmitted(S, bid) == bid \in DOMAIN S.blockBindings

\* the loop of emitBlock over the declared arguments from position i on
RECURSIVE bindBlockArguments(_, _, _, _)
bindBlockArguments(S, bid, irBlock, i) ==
  IF Halted(S) \/ i > Len(StmtBlocks[bid].args) THEN S
  ELSE IF Kind(StmtBlocks[bid].args[i]) # "Unbound"
  THEN Fatal(S, "cannot use bound expressions as block arguments")
  ELSE bindBlockArguments(
         bind(addArgument(S, irBlock, StmtBlocks[bid].argTypes[i]),
              StmtBlocks[bid].args[i], BArgVal(irBlock, i)),
         bid, irBlock, i + 1)

\* emitBlock without the insert into blockBindings
recordBlock_omitted(S, bid) == S

\* blockBindings.insert({block, irBlock}), irBlock being where the cursor is
recordBlock(S, bid) ==
  [S EXCEPT !.blockBindings = (bid :> S.cursor.block) @@ @]

\* the end of emitBlock, S being the state after the body
blockEnd(S, previous) ==
  IF Halted(S) THEN S
  ELSE setInsertionPoint(S, previous.block, previous.ip)

\* emitBlock from the argument loop on, S being the state after the
\* mapping was recorded
blockBody(S, bid, previous, undef) ==
  blockEnd(emitStmts(bindBlockArguments(S, bid, S.cursor.block, 1),
                     StmtBlocks[bid].body, undef),
           previous)

emitBlock(S, bid, undef) ==
  IF Halted(S) \/ alreadyEmitted(S, bid) THEN S
  ELSE blockBody(recordBlock(createBlock(S), bid), bid, S.cursor, undef)

----------------------------------------------------------------------------
(* Function arguments, literals and region views *)

\* a handler's state on return, and the node or nodes it returns
Outs(S, out) == [s |-> S, out |-> out]

NumArguments == Len(FuncArgs)

\* Expr b(type); bind(Bindable(b), v); return b -- S holding the new node
bindNewest(S, v) == Outs(bind(S, newest(S), v), <<newest(S)>>)

\* bindFunctionArgument(emitter, function, pos); pos counts from 0
bindFunctionArgument(S, pos) ==
  IF ~(pos < NumArguments) THEN Outs(Fatal(S, "pos < f->getNumArguments()"), <<>>)
  ELSE bindNewest(newExpr(S, FuncArgs[pos + 1].ty), FArgVal(pos + 1))

\* the loop of bindFunctionArguments and of makeBoundFunctionArguments from
\* position pos on, res holding the nodes made so far
RECURSIVE bindArgumentsFrom(_, _, _, _)
RECURSIVE bindArgumentAt(_, _, _, _)
bindArgumentAt(r, pos, n, res) ==
  bindArgumentsFrom(r.s, pos + 1, n, res \o r.out)

bindArgumentsFrom(S, pos, n, res) ==
  IF Halted(S) \/ ~(pos < n) THEN Outs(S, res)
  ELSE bindArgumentAt(bindNewest(newExpr(S, FuncArgs[pos + 1].ty),
                                 FArgVal(pos + 1)),
                      pos, n, res)

\* bindFunctionArguments without its assert on result->n
bindFunctionArguments_unchecked(S, n) == bindArgumentsFrom(S, 0, n, <<>>)

\* bindFunctionArguments(emitter, function, result) with result->n = n
bindFunctionArguments(S, n) ==
  IF n # NumArguments THEN Outs(Fatal(S, "result->n == f->getNumArguments()"), <<>>)
  ELSE bindArgumentsFrom(S, 0, n, <<>>)

\* MLIREmitter::makeBoundFunctionArguments(function)
makeBoundFunctionArguments(S) == bindArgumentsFrom(S, 0, NumArguments, <<>>)

\* Expr b(type); bindConstant<Op>(Bindable(b), value); return b -- S holding
\* the new node
bindConstantNewest(S, op, value, ty) ==
  Outs(bindConstant(S, newest(S), op, value, ty), <<newest(S)>>)

\* bindConstantIndex(emitter, value)
bindConstantIndex(S, value) ==
  bindConstantNewest(newExpr(S, IndexTy), "constant_index", value, IndexTy)

\* APFloat::convert(<IEEE half>, rmNearestTiesToEven, &unused) on a float
\* that holds the non-negative integer value: the 11 leading bits are kept,
\* the dropped ones round to nearest, a tie to the even significand, and
\* what exceeds the largest half, 65504, becomes infinity
RECURSIVE roundedToBits(_, _)

\* the float +infinity, set apart from the non-negative finite values
Infinity == -1

roundedToBits(value, unit) ==
  IF value >= 2048 * unit THEN roundedToBits(value, 2 * unit)
  ELSE LET q == value \div unit
           rest == value % unit
           up == 2 * rest > unit \/ (2 * rest = unit /\ q % 2 = 1)
       IN (IF up THEN q + 1 ELSE q) * unit

convertToHalf(value) ==
  IF roundedToBits(value, 1) > 65504 THEN Infinity
  ELSE roundedToBits(value, 1)

\* bindConstantBF16(emitter, value)
bindConstantBF16(S, value) ==
  bindConstantNewest(newExpr(S, Ty("scalar", "bf16")), "constant_float",
                     value, Ty("scalar", "bf16"))

\* bindConstantF16(emitter, value): the node is declared with getBF16Type()
\* and the constant, narrowed to half, is created with getF16Type()
bindConstantF16(S, value) ==
  bindConstantNewest(newExpr(S, Ty("scalar", "bf16")), "constant_float",
                     convertToHalf(value), Ty("scalar", "f16"))

\* bindConstantF32(emitter, value)
bindConstantF32(S, value) ==
  bindConstantNewest(newExpr(S, F32Ty), "constant_float", value, F32Ty)

\* bindConstantF64(emitter, value)
bindConstantF64(S, value) ==
  bindConstantNewest(newExpr(S, Ty("scalar", "f64")), "constant_float",
                     value, Ty("scalar", "f64"))

\* bindConstantInt(emitter, value, bitwidth)
bindConstantInt(S, value, bitwidth) ==
  bindConstantNewest(newExpr(S, Ty("scalar", "i" \o ToString(bitwidth))),
                     "constant_int", value,
                     Ty("scalar", "i" \o ToString(bitwidth)))

isMemRef(S, v) == v # Null /\ TypeOf(S, v).c = "memref"

\* MemRefType::getShape of a buffer value
ShapeOf(v) == IF v.k = "farg" THEN FuncArgs[v.i].shape ELSE <<>>

\* a size test that takes the extent 0 for a dynamic one
isDynamicSize_orZero(size) == size <= 0

isDynamicSize(size) == size < 0

\* the body of the loop of getMemRefSizes for dimension idx (from 0)
sizeOfDim(S, memRef, idx) ==
  IF isDynamicSize(ShapeOf(memRef)[idx + 1])
  THEN create(S, "dim", <<memRef>>, <<idx>>, IndexTy)
  ELSE create(S, "constant_index", <<>>, <<ShapeOf(memRef)[idx + 1]>>, IndexTy)

\* getMemRefSizes: one DimOp or ConstantIndexOp per dimension from idx on,
\* res holding the values made so far
RECURSIVE getMemRefSizesFrom(_, _, _, _)
RECURSIVE pushSize(_, _, _, _)
pushSize(S, memRef, idx, res) ==
  getMemRefSizesFrom(S, memRef, idx + 1, Append(res, created(S)))

getMemRefSizesFrom(S, memRef, idx, res) ==
  IF ~(idx < Len(ShapeOf(memRef))) THEN Rets(S, res)
  ELSE pushSize(sizeOfDim(S, memRef, idx), memRef, idx, res)

getMemRefSizes(S, memRef) ==
  IF ~isMemRef(S, memRef) THEN Rets(Fatal(S, "Expected a MemRef value"), <<>>)
  ELSE getMemRefSizesFrom(S, memRef, 0, <<>>)

\* edsc::makeNewExprs(n, type): n new Unbound nodes after those of res
RECURSIVE makeNewExprs(_, _, _, _)
RECURSIVE pushNewest(_, _, _, _)
pushNewest(S, n, ty, res) == makeNewExprs(S, n - 1, ty, Append(res, newest(S)))

makeNewExprs(S, n, ty, res) ==
  IF n = 0 THEN Outs(S, res) ELSE pushNewest(newExpr(S, ty), n, ty, res)

\* MLIREmitter::bindZipRange: bind(nodes[i], values[i]) for each i in order
RECURSIVE bindZipRange(_, _, _)
bindZipRange(S, nodes, values) ==
  IF Halted(S) \/ nodes = <<>> \/ values = <<>> THEN S
  ELSE bindZipRange(bind(S, Head(nodes), Head(values)), Tail(nodes), Tail(values))

\* makeBoundMemRefShape from the size assert on, nodes being the new nodes
\* and sizes what getMemRefSizes returned
bindSizes(nodes, sizes) ==
  IF Halted(sizes.s) THEN Outs(sizes.s, <<>>)
  ELSE IF Len(sizes.vs) # Len(nodes)
  THEN Outs(Fatal(sizes.s, "memrefSizeValues.size() == memRefSizes.size()"), <<>>)
  ELSE Outs(bindZipRange(sizes.s, nodes, sizes.vs), nodes)

\* makeBoundMemRefShape once the new nodes are made
sizesFor(memRefSizes, memRef) ==
  bindSizes(memRefSizes.out, getMemRefSizes(memRefSizes.s, memRef))

\* MLIREmitter::makeBoundMemRefShape(memRef)
makeBoundMemRefShape(S, memRef) ==
  IF ~isMemRef(S, memRef) THEN Outs(Fatal(S, "Expected a MemRef value"), <<>>)
  ELSE sizesFor(makeNewExprs(S, Len(ShapeOf(memRef)), IndexTy, <<>>), memRef)

\* rank copies of node e
Copies(e, rank) == [i \in 1..rank |-> e]

\* the end of makeBoundMemRefView, r holding the node one
viewOf(lbs, ubs, r, rank) ==
  IF Halted(r.s) THEN Outs(r.s, <<>>)
  ELSE Outs(r.s, <<lbs, ubs, Copies(r.out[1], rank)>>)

\* makeBoundMemRefView from Expr one on, ubs being what makeBoundMemRefShape
\* returned
viewSteps(lbs, ubs, rank) ==
  IF Halted(ubs.s) THEN Outs(ubs.s, <<>>)
  ELSE viewOf(lbs, ubs.out,
              bindConstantNewest(newExpr(ubs.s, IndexTy), "constant_index", 1,
                                 IndexTy),
              rank)

\* makeBoundMemRefView from makeBoundMemRefShape on, r holding the node zero
viewBounds(r, memRef, rank) ==
  viewSteps(Copies(r.out[1], rank), makeBoundMemRefShape(r.s, memRef), rank)

\* MLIREmitter::makeBoundMemRefView(Value *memRef)
makeBoundMemRefView(S, memRef) ==
  IF ~isMemRef(S, memRef)
  THEN Outs(Fatal(S, "cast<Ty>() argument of incompatible type"), <<>>)
  ELSE viewBounds(bindConstantNewest(newExpr(S, IndexTy), "constant_index", 0,
                                     IndexTy),
                  memRef, Len(ShapeOf(memRef)))

----------------------------------------------------------------------------
(* The state machine *)

Cur ==
  [ssaBindings |-> ssaBindings, blockBindings |-> blockBindings,
   insts |-> insts, blocks |-> blocks, cursor |-> cursor, fresh |-> fresh,
   fatal |-> fatal]

Install(S) ==
  /\ ssaBindings' = S.ssaBindings
  /\ blockBindings' = S.blockBindings
  /\ insts' = S.insts
  /\ blocks' = S.blocks
  /\ cursor' = S.cursor
  /\ fresh' = S.fresh
  /\ fatal' = S.fatal

\* no binding at all
NoBindings == [e \in {} |-> Null]

\* The function handed to the builder: an entry block holding its return,
\* the builder positioned before the return (ip = 1) or at the block's end.
BuilderAt(ip) ==
  [ssaBindings |-> NoBindings, blockBindings |-> [b \in {} |-> 0],
   insts |-> << [op |-> "return", operands |-> <<>>, attr |-> <<>>,
                 ty |-> NoneTy] >>,
   blocks |-> << [owner |-> 0, argTypes |-> <<>>, body |-> <<1>>] >>,
   cursor |-> [block |-> 1, ip |-> ip], fresh |-> <<>>, fatal |-> NoError]

\* MLIREmitter::MLIREmitter: the ubiquitous zero and one
MLIREmitter(S) ==
  bindConstant(bindConstant(S, "zeroIndex", "constant_index", 0, IndexTy),
               "oneIndex", "constant_index", 1, IndexTy)

Init ==
  LET S == MLIREmitter(BuilderAt(1))
  IN /\ ssaBindings = S.ssaBindings
     /\ blockBindings = S.blockBindings
     /\ insts = S.insts
     /\ blocks = S.blocks
     /\ cursor = S.cursor
     /\ fresh = S.fresh
     /\ fatal = S.fatal

\* the nodes made by Expr b(type)
FreshNodes(S) == {FreshName(k) : k \in 1..Len(S.fresh)}

\* the nodes that exist: the client's tree and the nodes made since
Nodes(S) == StaticNodes \cup FreshNodes(S)

\* the nodes the client hands to emitExpr: the operator and loop nodes, the
\* other structured node, a placeholder, and the nodes made since
Roots(S) ==
  {e \in StaticNodes : Tree[e].kind # "Unbound"} \cup {"pS"} \cup FreshNodes(S)

\* the placeholders the client binds by hand
ClientPlaceholders == {"pL", "pU", "pS"}

\* the values the client binds them to: the index argument of the function
\* and the constant one
ClientValues(S) == {FArgVal(1), S.ssaBindings["oneIndex"]}

\* something of the client's tree has been bound or lowered
Lowering(S) ==
  \/ DOMAIN S.ssaBindings \ ({"zeroIndex", "oneIndex"} \cup FreshNodes(S)) # {}
  \/ DOMAIN S.blockBindings # {}

Running == fatal = NoError

\* the tree is bound and lowered in emitters with at most MaxMixedFresh made
\* nodes
MayLower == Running /\ Len(fresh) <= MaxMixedFresh

\* n more nodes may be made
MayMake(n) ==
  /\ Running
  /\ ~Lowering(Cur)
  /\ Len(fresh) + n <= MaxFresh

Bind(e, v) ==
  /\ MayLower
  /\ Install(bind(Cur, e, v))

EmitExpr(e, undef) ==
  /\ MayLower \/ (Running /\ e \in FreshNodes(Cur))
  /\ Install(emitExpr(Cur, e, undef).s)

EmitStmt(sid, undef) ==
  /\ MayLower
  /\ Install(emitStmt(Cur, sid, undef))

EmitStmts(stmts, undef) ==
  /\ MayLower
  /\ Install(emitStmts(Cur, stmts, undef))

EmitBlock(bid, undef) ==
  /\ MayLower
  /\ Install(emitBlock(Cur, bid, undef))

BindFunctionArgument(pos) ==
  /\ MayMake(1)
  /\ Install(bindFunctionArgument(Cur, pos).s)

BindFunctionArguments(n) ==
  /\ MayMake(NumArguments)
  /\ Install(bindFunctionArguments(Cur, n).s)

BindConstantIndex(value) ==
  /\ MayMake(1)
  /\ Install(bindConstantIndex(Cur, value).s)

MakeBoundMemRefView(memRef) ==
  /\ MayMake(Len(ShapeOf(memRef)) + 2)
  /\ Install(makeBoundMemRefView(Cur, memRef).s)

Next ==
  \/ \E e \in ClientPlaceholders, v \in ClientValues(Cur) : Bind(e, v)
  \/ \E e \in Roots(Cur), undef \in Outcomes(Cur) : EmitExpr(e, undef)
  \/ \E sid \in TopStmts, undef \in Outcomes(Cur) : EmitStmt(sid, undef)
  \/ \E stmts \in StmtLists, undef \in Outcomes(Cur) : EmitStmts(stmts, undef)
  \/ \E bid \in 1..Len(StmtBlocks), undef \in Outcomes(Cur) :
       EmitBlock(bid, undef)
  \/ \E pos \in 0..NumArguments : BindFunctionArgument(pos)
  \/ \E n \in {NumArguments - 1, NumArguments} : BindFunctionArguments(n)
  \/ \E value \in {4} : BindConstantIndex(value)
  \/ \E i \in 1..NumArguments : MakeBoundMemRefView(FArgVal(i))

Spec == Init /\ [][Next]_vars

\* A client that binds its placeholders and lowers statements and blocks
\* only.
StmtNext ==
  \/ \E e \in ClientPlaceholders, v \in ClientValues(Cur) : Bind(e, v)
  \/ \E sid \in TopStmts, undef \in Outcomes(Cur) : EmitStmt(sid, undef)
  \/ \E stmts \in StmtLists, undef \in Outcomes(Cur) : EmitStmts(stmts, undef)
  \/ \E bid \in 1..Len(StmtBlocks), undef \in Outcomes(Cur) :
       EmitBlock(bid, undef)

StmtSpec == Init /\ [][StmtNext]_vars

\* A client that binds function arguments and literals and makes region
\* views, and lowers nothing: n more nodes may be made.
MaySetUp(n) == Running /\ Len(fresh) + n <= MaxSetUp

ArgumentBound(pos) ==
  /\ MaySetUp(1)
  /\ Install(bindFunctionArgument(Cur, pos).s)

ArgumentsBound(n) ==
  /\ MaySetUp(NumArguments)
  /\ Install(bindFunctionArguments(Cur, n).s)

ConstantBound(value) ==
  /\ MaySetUp(1)
  /\ Install(bindConstantIndex(Cur, value).s)

ViewMade(memRef) ==
  /\ MaySetUp(Len(ShapeOf(memRef)) + 2)
  /\ Install(makeBoundMemRefView(Cur, memRef).s)

SetUpNext ==
  \/ \E pos \in 0..NumArguments : ArgumentBound(pos)
  \/ \E n \in {NumArguments - 1, NumArguments} : ArgumentsBound(n)
  \/ \E value \in {4} : ConstantBound(value)
  \/ \E i \in 1..NumArguments : ViewMade(FArgVal(i))

SetUpSpec == Init /\ [][SetUpNext]_vars

\* A client of the arithmetic helpers alone.  The function holds, besides
\* the emitter's constants, one value of each further type: results of
\* calls, of type i32, f32, vector of i32 and tensor of f32.
ArithTypes == <<I32Ty, F32Ty, VectorI32Ty, TensorF32Ty>>

RECURSIVE withOperands(_, _)
withOperands(S, k) ==
  IF k > Len(ArithTypes) THEN S
  ELSE withOperands(create(S, "call", <<>>, <<>>, ArithTypes[k]), k + 1)

ArithInit ==
  LET S == withOperands(MLIREmitter(BuilderAt(1)), 1)
  IN /\ ssaBindings = S.ssaBindings
     /\ blockBindings = S.blockBindings
     /\ insts = S.insts
     /\ blocks = S.blocks
     /\ cursor = S.cursor
     /\ fresh = S.fresh
     /\ fatal = S.fatal

\* the values add, sub and mul may be handed: the results of instructions
\* and the function's arguments
Operands(S) ==
  {InstVal(i) : i \in {j \in 1..Len(S.insts) : S.insts[j].ty # NoneTy}}
    \cup {FArgVal(i) : i \in 1..NumArguments}

\* the pairs they are handed: a value with itself, or with an argument of
\* the function that has its type
OperandPairs(S) ==
  {ab \in Operands(S) \X Operands(S) :
     /\ TypeOf(S, ab[1]) = TypeOf(S, ab[2])
     /\ ab[2] \in {FArgVal(i) : i \in 1..NumArguments} \cup {ab[1]}}

\* the instructions add, sub and mul have created
Computed(S) ==
  {i \in 1..Len(S.insts) :
     S.insts[i].op \in {"affine.apply", "addi", "addf", "subi", "subf",
                        "muli", "mulf"}}

MayCompute == Running /\ Cardinality(Computed(Cur)) < MaxArith

Add(a, b) == MayCompute /\ Install(add(Cur, a, b).s)

Sub(a, b) == MayCompute /\ Install(sub(Cur, a, b).s)

Mul(a, b) == MayCompute /\ Install(mul(Cur, a, b).s)

ArithNext ==
  \/ \E ab \in OperandPairs(Cur) : Add(ab[1], ab[2])
  \/ \E ab \in OperandPairs(Cur) : Sub(ab[1], ab[2])
  \/ \E ab \in OperandPairs(Cur) : Mul(ab[1], ab[2])

ArithSpec == ArithInit /\ [][ArithNext]_vars

\* A client that binds placeholders by hand, the node lhsA among them, and
\* lowers loop nodes, once more after an emission that returned no value.
PlaceholderBound(e, v) ==
  /\ Running
  /\ Install(bind(Cur, e, v))

LoopEmitted(e, undef) ==
  /\ Running
  /\ Install(emitExpr(Cur, e, undef).s)

RetryNext ==
  \/ \E e \in {"pL", "pU", "pS", "lhsA"}, v \in ClientValues(Cur) :
       PlaceholderBound(e, v)
  \/ \E e \in ForNodes, undef \in Outcomes(Cur) : LoopEmitted(e, undef)

RetrySpec == Init /\ [][RetryNext]_vars

\* A client of the six literal entry points alone.
BF16Bound(value) ==
  /\ Running /\ Len(fresh) < MaxLiterals
  /\ Install(bindConstantBF16(Cur, value).s)

F16Bound(value) ==
  /\ Running /\ Len(fresh) < MaxLiterals
  /\ Install(bindConstantF16(Cur, value).s)

F32Bound(value) ==
  /\ Running /\ Len(fresh) < MaxLiterals
  /\ Install(bindConstantF32(Cur, value).s)

F64Bound(value) ==
  /\ Running /\ Len(fresh) < MaxLiterals
  /\ Install(bindConstantF64(Cur, value).s)

IntBound(value, bitwidth) ==
  /\ Running /\ Len(fresh) < MaxLiterals
  /\ Install(bindConstantInt(Cur, value, bitwidth).s)

IndexBound(value) ==
  /\ Running /\ Len(fresh) < MaxLiterals
  /\ Install(bindConstantIndex(Cur, value).s)

\* the floats handed to bindConstantF16 are 1, two values halfway between
\* neighbouring halves, and one that rounds beyond the largest half
LiteralNext ==
  \/ \E value \in {1} : BF16Bound(value)
  \/ \E value \in {1, 2049, 2051, 65520} : F16Bound(value)
  \/ \E value \in {1} : F32Bound(value)
  \/ \E value \in {1} : F64Bound(value)
  \/ \E value \in {1}, bitwidth \in {1, 32} : IntBound(value, bitwidth)
  \/ \E value \in {4} : IndexBound(value)

LiteralSpec == Init /\ [][LiteralNext]_vars

----------------------------------------------------------------------------
(* Properties *)

\* the instructions of S with operation op
InstsOf(S, op) == {i \in 1..Len(S.insts) : S.insts[i].op = op}

\* every value of the IR of S: instruction results, induction variables,
\* function arguments and block arguments
Values(S) ==
  {InstVal(i) : i \in {j \in 1..Len(S.insts) : S.insts[j].ty # NoneTy}}
    \cup {IvVal(i) : i \in InstsOf(S, "affine.for")}
    \cup {FArgVal(i) : i \in 1..Len(FuncArgs)}
    \cup UNION {{BArgVal(b, pos) : pos \in 1..Len(S.blocks[b].argTypes)} :
                 b \in {c \in 1..Len(S.blocks) : S.blocks[c].owner = 0}}

\* C1: at-most-one binding.  A step of any operation leaves every binding
\* there is in place with the value it had: the table only grows, so a node
\* is inserted at most once and its value never changes.
C1_BindingsOnlyGrow ==
  [][\A e \in DOMAIN ssaBindings :
       e \in DOMAIN ssaBindings' /\ ssaBindings'[e] = ssaBindings[e]]_vars

\* nested statements have bound their left-hand sides, client placeholders
\* are bound and loops are lowered
C1_Witness ==
  /\ fatal = NoError
  /\ {"pL", "pU", "pS", "lhsA", "lhsB", "lhsD", "forA", "forB", "addE"}
       \subseteq DOMAIN ssaBindings

\* the operator nodes of the tree, and the instruction each lowers to on
\* index operands
OpNodes == {n \in StaticNodes : Tree[n].kind \in OpKinds}

InstOf(n) ==
  CASE Tree[n].name \in {"add", "sub"} -> "affine.apply"
    [] Tree[n].name = "mul" -> "muli"
    [] OTHER -> Tree[n].name

\* the instructions of S that lower operator node n: those of its
\* operation and, for a sum or a difference, of its map
InstsFor(S, n) ==
  {i \in InstsOf(S, InstOf(n)) :
     Tree[n].name \in {"add", "sub"} =>
       S.insts[i].attr[1].results
         = <<IF Tree[n].name = "add" THEN "d0 + d1" ELSE "d0 - d1">>}

\* what a successful emitExpr returns is what it has bound the node to
BindsWhatItReturns(e, r) ==
  (~Halted(r.s) /\ r.v # Null) =>
     (e \in DOMAIN r.s.ssaBindings /\ r.s.ssaBindings[e] = r.v)

\* S holds no instruction for a bound operator node that the current state
\* does not hold
NoSecondInstruction(S) ==
  \A n \in OpNodes \cap DOMAIN ssaBindings :
    InstsFor(S, n) = InstsFor(Cur, n)

\* emitExpr on e, r being what it returns
EmittedOnce(e, r) == BindsWhatItReturns(e, r) /\ NoSecondInstruction(r.s)

\* C2: idempotent memoization.  emitExpr on a node that has a binding
\* returns the bound value and changes nothing (no instruction, no binding,
\* no cursor move); a successful emitExpr binds the node to the value it
\* returns; and once an operator node is bound, emitting a consumer of it
\* (an expression or a statement) creates no further instruction for it.
C2_Memoized ==
  Running =>
    /\ \A e \in DOMAIN ssaBindings, u \in Outcomes(Cur) :
         emitExpr(Cur, e, u) = Ret(Cur, ssaBindings[e])
    /\ \A e \in Nodes(Cur) \ DOMAIN ssaBindings, u \in Outcomes(Cur) :
         EmittedOnce(e, emitExpr(Cur, e, u))
    /\ \A sid \in 1..Len(Stmts), u \in Outcomes(Cur) :
         NoSecondInstruction(emitStmt(Cur, sid, u))

\* pL + pU was lowered once, and then its consumers: the product that has
\* it as operand, the loop forB that has it as upper bound and the statement
\* inside that loop all use the one instruction
C2_Witness ==
  /\ fatal = NoError
  /\ {"addE", "mulE", "forB", "lhsD"} \subseteq DOMAIN ssaBindings
  /\ ssaBindings["lhsD"] = ssaBindings["addE"]
  /\ Cardinality(InstsFor(Cur, "addE")) = 1
  /\ insts[ssaBindings["forB"].i].operands[2] = ssaBindings["addE"]
  /\ insts[ssaBindings["mulE"].i].operands[1] = ssaBindings["addE"]

\* the cursor of S is the cursor of the current state
CursorKept(S) == Halted(S) \/ S.cursor = cursor

\* C3: cursor restoration.  When emitStmt returns, whatever the nesting of
\* the statement's body, the cursor is the one before the call.
C3_CursorRestored ==
  Running =>
    \A sid \in 1..Len(Stmts), u \in Outcomes(Cur) :
      CursorKept(emitStmt(Cur, sid, u))

\* statement 1 was emitted with its loop, the loop nested in it and the
\* statement nested in that, and the cursor is back where the emitter started
C3_Witness ==
  /\ fatal = NoError
  /\ {"lhsA", "lhsB", "lhsD"} \subseteq DOMAIN ssaBindings
  /\ Len(blocks) >= 3
  /\ cursor = [block |-> 1, ip |-> 1]

\* C4: bind of a value on a node that has a binding ends in the fatal
\* double binding, with the table, the IR and the cursor as they were.
C4_DoubleBindingFatal ==
  Running =>
    \A e \in DOMAIN ssaBindings, v \in Values(Cur) :
      bind(Cur, e, v) = Fatal(Cur, "Double binding!")

\* pL was bound twice and nothing else has happened
C4_Witness ==
  /\ fatal = "Double binding!"
  /\ DOMAIN ssaBindings = {"zeroIndex", "oneIndex", "pL"}
  /\ Len(insts) = 3

\* C5: emitExpr on an unbound placeholder, or on an unbound structured node
\* that is no loop, returns nullptr, halts nothing and binds nothing.
C5_MissingBindingNotFatal ==
  Running =>
    \A e \in Nodes(Cur) \ DOMAIN ssaBindings, u \in Outcomes(Cur) :
      Kind(e) \in {"Unbound", "StmtBlockLikeOther"}
        => emitExpr(Cur, e, u) = Ret(Cur, Null)

\* lowering is under way and there are an unbound placeholder and an unbound
\* structured node
C5_Witness ==
  /\ fatal = NoError
  /\ {"pL", "pU", "addE"} \subseteq DOMAIN ssaBindings
  /\ "pS" \notin DOMAIN ssaBindings
  /\ "otherE" \notin DOMAIN ssaBindings

\* the blocks of the function
TopBlocks(S) == {b \in 1..Len(S.blocks) : S.blocks[b].owner = 0}

\* C6: block idempotence.  emitBlock on a block that has an IR block changes
\* nothing; each emitted block has one IR block of its own (the function has
\* its entry block and one block per entry of blockBindings); and a step
\* leaves the entries of blockBindings as they are.
C6_BlockIdempotent ==
  /\ Running =>
       \A bid \in DOMAIN blockBindings, u \in Outcomes(Cur) :
         emitBlock(Cur, bid, u) = Cur
  /\ Cardinality(TopBlocks(Cur)) = 1 + Cardinality(DOMAIN blockBindings)
  /\ \A b1, b2 \in DOMAIN blockBindings :
       blockBindings[b1] = blockBindings[b2] => b1 = b2

\* block 1 was emitted: its argument is bound to the argument of its IR block
C6_Witness ==
  /\ fatal = NoError
  /\ 1 \in DOMAIN blockBindings
  /\ "argB" \in DOMAIN ssaBindings
  /\ ssaBindings["argB"] = BArgVal(blockBindings[1], 1)
  /\ blocks[blockBindings[1]].argTypes = <<IndexTy>>

\* v is the result of a constant-index instruction of S
ConstDefined(S, v) ==
  getDefiningInst(v) # 0 /\ S.insts[getDefiningInst(v)].op = "constant_index"

\* the value node e is bound to
Bound(e) == ssaBindings[e]

\* the loop instruction behind the induction variable a loop node is bound to
LoopOf(e) == insts[getForInductionVarOwner(Bound(e))]

\* the constant of the constant-index instruction that defines v
ConstOf(v) == insts[getDefiningInst(v)].attr[1]

\* loop instruction loop is of the compact form on the constants of lb and ub
Compact(loop, lb, ub) ==
  /\ loop.operands = <<>>
  /\ Len(loop.attr) = 3
  /\ loop.attr[1] = ConstOf(lb)
  /\ loop.attr[2] = ConstOf(ub)

\* loop instruction loop is of the general form with operands lb and ub
General(loop, lb, ub) ==
  /\ loop.operands = <<lb, ub>>
  /\ Len(loop.attr) = 1

\* C7: loop form selection.  A lowered loop node is bound to the induction
\* variable of a loop instruction, and that instruction is of the compact
\* form if and only if both bound values are defined by constant-index
\* instructions; otherwise it is of the general form and takes the two bound
\* values as operands.
C7_LoopForm ==
  \A e \in ForNodes \cap DOMAIN ssaBindings :
    /\ Bound(e).k = "iv"
    /\ LoopOf(e).op = "affine.for"
    /\ IF /\ ConstDefined(Cur, Bound(Tree[e].children[1]))
          /\ ConstDefined(Cur, Bound(Tree[e].children[2]))
       THEN Compact(LoopOf(e), Bound(Tree[e].children[1]),
                    Bound(Tree[e].children[2]))
       ELSE General(LoopOf(e), Bound(Tree[e].children[1]),
                    Bound(Tree[e].children[2]))

\* forA was lowered on two constants, and forB on forA's induction variable
\* and an affine application
C7_Witness ==
  /\ fatal = NoError
  /\ {"forA", "forB"} \subseteq DOMAIN ssaBindings
  /\ Compact(LoopOf("forA"), Bound("pL"), Bound("pU"))
  /\ General(LoopOf("forB"), Bound("subE"), Bound("addE"))
  /\ General(LoopOf("forE"), Bound("lhsA"), Bound("lhsB"))
  /\ Bound("lhsA") = Bound("forA")
  /\ insts[getDefiningInst(Bound("addE"))].op = "affine.apply"

\* the provenances the specification lists for a loop bound
ListedProvenance(S, v) ==
  \/ v.k = "iv"
  \/ /\ getDefiningInst(v) # 0
     /\ S.insts[getDefiningInst(v)].op \in {"constant_index", "affine.apply"}

\* the provenances the code accepts for a loop bound
AcceptedProvenance(S, v) ==
  \/ getDefiningInst(v) = 0
  \/ S.insts[getDefiningInst(v)].op \in
       {"constant_index", "affine.apply", "affine.for"}

\* C8 as stated: the bounds of every loop that was created are results of
\* constant-index or affine-apply instructions, or induction variables.
C8_ListedProvenanceOnly ==
  \A e \in ForNodes \cap DOMAIN ssaBindings :
    /\ ListedProvenance(Cur, Bound(Tree[e].children[1]))
    /\ ListedProvenance(Cur, Bound(Tree[e].children[2]))

\* the For case on operands lb, ub, step halts on the provenance of a bound
\* and leaves S as it was
RefusesBounds(S, r) ==
  /\ r.v = Null
  /\ r.s.fatal \in {"lower bound expression does not have affine provenance",
                    "upper bound expression does not have affine provenance"}
  /\ r.s = Fatal(S, r.s.fatal)

\* C8, amended: the bounds of every loop that was created have no defining
\* instruction (a function argument, a block argument, an induction
\* variable) or are results of constant-index or affine-apply instructions;
\* on a bound any other instruction defines, the loop case ends in the fatal
\* provenance assertion and creates no loop instruction.
C8_AffineProvenance ==
  /\ \A e \in ForNodes \cap DOMAIN ssaBindings :
       /\ AcceptedProvenance(Cur, Bound(Tree[e].children[1]))
       /\ AcceptedProvenance(Cur, Bound(Tree[e].children[2]))
  /\ Running =>
       \A bad \in {v \in Values(Cur) : ~AcceptedProvenance(Cur, v)},
          any \in Values(Cur), u \in Outcomes(Cur) :
         /\ RefusesBounds(Cur,
               emitFor(Cur, <<bad, any, Bound("oneIndex")>>, u))
         /\ RefusesBounds(Cur,
               emitFor(Cur, <<any, bad, Bound("oneIndex")>>, u))

\* forA was lowered with a function argument as lower bound, and a product
\* that has no affine provenance is at hand
C8_Witness ==
  /\ fatal = NoError
  /\ {"forA", "mulE"} \subseteq DOMAIN ssaBindings
  /\ Bound("pL") = FArgVal(1)
  /\ LoopOf("forA").operands[1] = FArgVal(1)
  /\ ~AcceptedProvenance(Cur, Bound("mulE"))

\* emitExpr on loop node e, r being its three operands materialized and f
\* what emitExpr returns: a step no constant-index instruction defines is
\* fatal, with no instruction more than the operands' and e not bound
StepRefused(e, r, f) ==
  (/\ ~Halted(r.s)
   /\ ~HasNull(r.vs)
   /\ ~ConstDefined(r.s, r.vs[3]))
    => /\ Halted(f.s)
       /\ f.s.insts = r.s.insts
       /\ e \notin DOMAIN f.s.ssaBindings

\* C9 as stated: a step that materializes to a value no constant-index
\* instruction defines ends emitExpr in the fatal state, before any loop
\* instruction is created and without the loop node bound, whatever the
\* build makes of the step's defining instruction.
C9_NonConstantStepFatal ==
  Running =>
    \A e \in ForNodes \ DOMAIN ssaBindings, u \in UndefOutcomes :
      StepRefused(e, emitExprs(Cur, Tree[e].children, u), emitExpr(Cur, e, u))

\* emitExprs on a, b, c is emitExpr on a, then on b, then on c
RECURSIVE InOrder(_, _, _, _)
RECURSIVE InOrderAfter(_, _, _, _)
InOrder(S, es, vs, u) ==
  IF es = <<>> THEN Rets(S, vs)
  ELSE InOrderAfter(emitExpr(S, Head(es), u), Tail(es), vs, u)

InOrderAfter(r, es, vs, u) == InOrder(r.s, es, Append(vs, r.v), u)

\* emitExpr on loop node e, r being its three operands materialized and f
\* what emitExpr returns: an operand without value ends the emission there
Propagates(e, r, f) ==
  (~Halted(r.s) /\ HasNull(r.vs)) =>
     /\ f = Ret(r.s, Null)
     /\ e \notin DOMAIN f.s.ssaBindings
     /\ InstsOf(f.s, "affine.for") = InstsOf(Cur, "affine.for")

\* the operands r of loop node e were materialized in order, and a failure
\* among them propagates to f, what emitExpr returns
OperandsThenLoop(e, u, r, f) ==
  /\ r = InOrder(Cur, Tree[e].children, <<>>, u)
  /\ Propagates(e, r, f)

\* C10: loop operand failure propagates.  emitExpr on an unbound loop node
\* materializes lower bound, upper bound and step in that order; when one of
\* them has no value it returns nullptr without halting, creates no loop
\* instruction and does not bind the loop node.
C10_OperandFailurePropagates ==
  Running =>
    \A e \in ForNodes \ DOMAIN ssaBindings, u \in Outcomes(Cur) :
      OperandsThenLoop(e, u, emitExprs(Cur, Tree[e].children, u),
                       emitExpr(Cur, e, u))

\* forB's lower bound has no value while its upper bound was materialized,
\* and forA's step alone has no value: both emissions return nullptr
C10_Witness ==
  /\ fatal = NoError
  /\ {"pL", "pU", "addE"} \subseteq DOMAIN ssaBindings
  /\ {"pS", "lhsA", "forA", "forB"} \cap DOMAIN ssaBindings = {}
  /\ emitExpr(Cur, "forB", "trap") = Ret(Cur, Null)
  /\ emitExpr(Cur, "forA", "trap") = Ret(Cur, Null)

----------------------------------------------------------------------------
\* The statements whose right-hand side is one of the three operations that
\* may produce no value.
AllowListed(sid) ==
  /\ Kind(Stmts[sid].rhs) \in OpKinds
  /\ Tree[Stmts[sid].rhs].name \in {"dealloc", "store", "return"}

\* r is what emitExpr returned for the right-hand side of sid, R is the
\* state emitStmt leaves.
ZeroResultRule(sid, r, R) ==
  (~Halted(r.s) /\ r.v = Null) =>
    IF AllowListed(sid)
    THEN /\ ~Halted(R)
         /\ R.ssaBindings = r.s.ssaBindings
         /\ R.insts = r.s.insts
         /\ (Stmts[sid].lhs \in DOMAIN R.ssaBindings)
              = (Stmts[sid].lhs \in DOMAIN Cur.ssaBindings)
    ELSE /\ R.fatal
              = "dealloc, store or return expected as the only 0-result ops"
         /\ R.ssaBindings = r.s.ssaBindings

\* C11: when the right-hand side of a statement yields no value, emitStmt
\* returns normally, binding nothing to the left-hand side and emitting
\* none of the enclosed statements, only if the right-hand side is a
\* dealloc, a store or a return; for every other right-hand side that
\* yields no value, emitStmt is fatal.
C11_ZeroResultAllowList ==
  Running =>
    \A sid \in DOMAIN Stmts, u \in Outcomes(Cur) :
      ZeroResultRule(sid, emitExpr(Cur, Stmts[sid].rhs, u),
                     emitStmt(Cur, sid, u))

\* emitStmt has emitted the store of statement 3 and returned: the store is
\* there, and neither its left-hand side nor the left-hand side of its
\* enclosed statement, whose right-hand side is bound, has a binding.
C11_Witness ==
  /\ Running
  /\ InstsOf(Cur, "store") # {}
  /\ "pS" \in DOMAIN ssaBindings
  /\ {"lhsC", "lhsE"} \cap DOMAIN ssaBindings = {}
  /\ emitStmt(Cur, 3, "trap") = Cur

----------------------------------------------------------------------------
\* the placeholders an expression references, at any depth
RECURSIVE Placeholders(_)
Placeholders(e) ==
  IF Kind(e) = "Unbound" THEN {e}
  ELSE UNION { Placeholders(Tree[e].children[i]) :
               i \in DOMAIN Tree[e].children }

\* emitExpr of e in S comes to a placeholder without binding
MissesBinding(S, e) ==
  /\ e \notin DOMAIN S.ssaBindings
  /\ Placeholders(e) \ DOMAIN S.ssaBindings # {}

\* C12: when the right-hand side of a statement references a placeholder
\* that has no binding, emitStmt, and emitStmts on a list holding the
\* statement, give the failure back to the caller and the process is not
\* halted.
C12_MissingBindingRecoverable ==
  Running =>
    \A u \in Outcomes(Cur) :
      /\ \A sid \in DOMAIN Stmts :
           MissesBinding(Cur, Stmts[sid].rhs)
             => ~Halted(emitStmt(Cur, sid, u))
      /\ \A stmts \in StmtLists :
           (\E k \in DOMAIN stmts : MissesBinding(Cur, Stmts[stmts[k]].rhs))
             => ~Halted(emitStmts(Cur, stmts, u))

----------------------------------------------------------------------------
\* the buffers among the function's arguments
Buffers == {FArgVal(i) : i \in {j \in 1..NumArguments : isMemRef(Cur, FArgVal(j))}}

\* the instruction node e is bound to in S
DefOf(S, e) == S.insts[S.ssaBindings[e].i]

\* where instruction i stands in its block
PlaceOf(S, i) ==
  CHOOSE bp \in {<<b, p>> : b \in DOMAIN S.blocks, p \in 1..Len(S.insts)} :
    /\ bp[2] \in DOMAIN S.blocks[bp[1]].body
    /\ S.blocks[bp[1]].body[bp[2]] = i

\* node e was made by the call that led from Cur to S and is bound there to
\* a new index constant of the given value
NewConstant(S, e, value) ==
  /\ e \in FreshNodes(S) \ FreshNodes(Cur)
  /\ e \in DOMAIN S.ssaBindings
  /\ S.ssaBindings[e].k = "inst"
  /\ S.ssaBindings[e].i > Len(Cur.insts)
  /\ DefOf(S, e).op = "constant_index"
  /\ DefOf(S, e).attr = <<value>>

\* node e was made by that call and is bound to a new size query on
\* dimension dim (from 0) of the buffer
NewSizeQuery(S, e, memRef, dim) ==
  /\ e \in FreshNodes(S) \ FreshNodes(Cur)
  /\ e \in DOMAIN S.ssaBindings
  /\ S.ssaBindings[e].k = "inst"
  /\ S.ssaBindings[e].i > Len(Cur.insts)
  /\ DefOf(S, e).op = "dim"
  /\ DefOf(S, e).operands = <<memRef>>
  /\ DefOf(S, e).attr = <<dim>>

\* r is what makeBoundMemRefView returned for memRef in Cur
ViewCorrect(memRef, r) ==
  LET s == ShapeOf(memRef)
      N == Len(s)
      lbs == r.out[1]
      ubs == r.out[2]
      steps == r.out[3]
  IN /\ ~Halted(r.s)
     /\ Len(r.out) = 3
     /\ Len(lbs) = N /\ Len(ubs) = N /\ Len(steps) = N
     /\ \A i \in 1..N : lbs[i] = lbs[1] /\ NewConstant(r.s, lbs[i], 0)
     /\ \A i \in 1..N : steps[i] = steps[1] /\ NewConstant(r.s, steps[i], 1)
     /\ \A i \in 1..N :
          IF s[i] >= 0 THEN NewConstant(r.s, ubs[i], s[i])
          ELSE NewSizeQuery(r.s, ubs[i], memRef, i - 1)
     /\ \A i, j \in 1..N : i < j =>
          /\ ubs[i] # ubs[j]
          /\ r.s.ssaBindings[ubs[i]].i < r.s.ssaBindings[ubs[j]].i
          /\ PlaceOf(r.s, r.s.ssaBindings[ubs[i]].i)[1]
               = PlaceOf(r.s, r.s.ssaBindings[ubs[j]].i)[1]
          /\ PlaceOf(r.s, r.s.ssaBindings[ubs[i]].i)[2]
               < PlaceOf(r.s, r.s.ssaBindings[ubs[j]].i)[2]
     /\ {lbs[1], steps[1]} \cap {ubs[i] : i \in 1..N} = {}
     /\ lbs[1] # steps[1]
     /\ Len(r.s.fresh) = Len(Cur.fresh) + N + 2
     /\ Len(r.s.insts) = Len(Cur.insts) + N + 2

\* the nodes of a view
ViewNodes(out) == UNION { {out[k][i] : i \in DOMAIN out[k]} : k \in DOMAIN out }

\* r and again are what two calls in a row returned for the same buffer
ViewsApart(r, again) ==
  /\ ~Halted(again.s)
  /\ ViewNodes(r.out) \cap ViewNodes(again.out) = {}
  /\ \A e \in ViewNodes(r.out) : again.s.ssaBindings[e] = r.s.ssaBindings[e]

\* C13: for a buffer of rank N and shape s, makeBoundMemRefView returns
\* three sequences of length N: the lower bounds are one new node bound to
\* the constant 0, the steps one new node bound to the constant 1, the
\* upper bounds N distinct new nodes, the i-th bound to the constant s[i]
\* when s[i] >= 0 and to a size query on dimension i when s[i] < 0, the
\* size instructions standing in ascending dimension order; a second call
\* on the same buffer shares no node with the first and halts nothing.
C13_RegionView ==
  Running =>
    \A memRef \in Buffers :
      /\ ViewCorrect(memRef, makeBoundMemRefView(Cur, memRef))
      /\ ViewsApart(makeBoundMemRefView(Cur, memRef),
                    makeBoundMemRefView(makeBoundMemRefView(Cur, memRef).s,
                                        memRef))

\* two views of the buffer have been made: two size queries, two constants
\* for its static extent besides the zeros of the lower bounds, eight nodes
C13_Witness ==
  /\ Running
  /\ Cardinality(InstsOf(Cur, "dim")) = 2
  /\ Len(fresh) = 8
  /\ \A e \in FreshNodes(Cur) : e \in DOMAIN ssaBindings
  /\ Cardinality({ssaBindings[e] : e \in FreshNodes(Cur)}) = 8

----------------------------------------------------------------------------
\* The category of a value: that of the element type for a vector or a
\* buffer, that of the type itself for anything else.
Category(S, v) ==
  LET ty == TypeOf(S, v)
      scalar == ty.c = "scalar" \/ ty.c \in {"vector", "memref"}
  IN IF scalar /\ ty.e = "index" THEN "index"
     ELSE IF scalar /\ ty.e \in {"i1", "i32", "i64"} THEN "integer"
     ELSE IF scalar /\ ty.e \in {"bf16", "f16", "f32", "f64"} THEN "float"
     ELSE "other"

\* r holds one new instruction op on (a, b) with the given attributes and
\* returns its result
Lowered(r, op, a, b, attr) ==
  /\ ~Halted(r.s)
  /\ Len(r.s.insts) = Len(Cur.insts) + 1
  /\ r.v = InstVal(Len(r.s.insts))
  /\ r.s.insts[r.v.i].op = op
  /\ r.s.insts[r.v.i].operands = <<a, b>>
  /\ r.s.insts[r.v.i].attr = attr

\* r is fatal and holds no new instruction
Refused(r) == Halted(r.s) /\ r.s.insts = Cur.insts

\* the map of two dimensions and no symbol with the one result
Map2(result) == <<[dims |-> 2, symbols |-> 0, results |-> <<result>>]>>

\* C14: add and sub become the application of a two-dimensional affine
\* map (d0 + d1, d0 - d1) for an operand of index category, the integer
\* instruction for integer, the float instruction for float, and are fatal
\* for any other category; mul becomes the float multiply for float and
\* the integer multiply for every other category, index included.
C14_ArithmeticByCategory ==
  Running =>
    \A ab \in OperandPairs(Cur) :
      LET a == ab[1]
          b == ab[2]
          cat == Category(Cur, a)
      IN /\ CASE cat = "index" ->
                  /\ Lowered(add(Cur, a, b), "affine.apply", a, b, Map2("d0 + d1"))
                  /\ Lowered(sub(Cur, a, b), "affine.apply", a, b, Map2("d0 - d1"))
               [] cat = "integer" ->
                  /\ Lowered(add(Cur, a, b), "addi", a, b, <<>>)
                  /\ Lowered(sub(Cur, a, b), "subi", a, b, <<>>)
               [] cat = "float" ->
                  /\ Lowered(add(Cur, a, b), "addf", a, b, <<>>)
                  /\ Lowered(sub(Cur, a, b), "subf", a, b, <<>>)
               [] OTHER ->
                  /\ Refused(add(Cur, a, b))
                  /\ Refused(sub(Cur, a, b))
         /\ IF cat = "float"
            THEN Lowered(mul(Cur, a, b), "mulf", a, b, <<>>)
            ELSE Lowered(mul(Cur, a, b), "muli", a, b, <<>>)

\* an integer multiply of index operands, and a multiply of tensors, have
\* been created, beside operands of all four categories
C14_Witness ==
  /\ Running
  /\ \E i \in InstsOf(Cur, "muli") :
       Category(Cur, insts[i].operands[1]) = "index"
  /\ \E i \in InstsOf(Cur, "muli") :
       Category(Cur, insts[i].operands[1]) = "other"
  /\ {Category(Cur, v) : v \in Operands(Cur)}
       = {"index", "integer", "float", "other"}

----------------------------------------------------------------------------
\* r made one new node per argument of the function, bound the node at
\* position i to the i-th argument, and bound nothing else
BoundPositionally(r) ==
  /\ ~Halted(r.s)
  /\ Len(r.out) = NumArguments
  /\ \A i \in 1..NumArguments :
       /\ r.out[i] = FreshName(Len(Cur.fresh) + i)
       /\ r.out[i] \notin DOMAIN Cur.ssaBindings
       /\ r.s.ssaBindings[r.out[i]] = FArgVal(i)
       /\ DeclaredType(r.s, r.out[i]) = FuncArgs[i].ty
  /\ DOMAIN r.s.ssaBindings
       = DOMAIN Cur.ssaBindings \cup {r.out[i] : i \in 1..NumArguments}
  /\ Len(r.s.fresh) = Len(Cur.fresh) + NumArguments
  /\ \A e \in DOMAIN Cur.ssaBindings : r.s.ssaBindings[e] = Cur.ssaBindings[e]
  /\ r.s.insts = Cur.insts

\* r is the failed precondition, with nothing made and nothing bound
LengthRefused(r) ==
  /\ r.s.fatal = "result->n == f->getNumArguments()"
  /\ r.s.ssaBindings = Cur.ssaBindings
  /\ r.s.fresh = Cur.fresh
  /\ r.out = <<>>

\* C15: bindFunctionArguments with a result list shorter or longer than
\* the function's argument list is fatal and binds nothing; with a list of
\* that length it makes one new node per argument, binds the node at
\* position i to the i-th argument and returns it at position i, adding
\* one binding per argument; makeBoundFunctionArguments does the same.
C15_BulkArguments ==
  Running =>
    /\ LengthRefused(bindFunctionArguments(Cur, NumArguments - 1))
    /\ BoundPositionally(bindFunctionArguments(Cur, NumArguments))
    /\ BoundPositionally(makeBoundFunctionArguments(Cur))
    /\ LengthRefused(bindFunctionArguments(Cur, NumArguments + 1))

\* the arguments were bound in bulk twice: the newest four nodes are bound
\* to the first, the second, the first and the second argument
C15_Witness ==
  /\ Running
  /\ Len(fresh) >= 2 * NumArguments
  /\ \A k \in 0..1, i \in 1..NumArguments :
       LET e == FreshName(Len(fresh) - (k + 1) * NumArguments + i)
       IN e \in DOMAIN ssaBindings /\ ssaBindings[e] = FArgVal(i)

----------------------------------------------------------------------------
\* instruction i stands in the body of loop instruction loop, or in the
\* body of a loop standing there
RECURSIVE Inside(_, _, _)
Inside(S, i, loop) ==
  LET owner == S.blocks[PlaceOf(S, i)[1]].owner
  IN owner = loop \/ (owner # 0 /\ Inside(S, owner, loop))

\* the block instruction i stands in, loops created after instruction
\* number since taken for the instructions they are
RECURSIVE ScopeOf(_, _, _)
ScopeOf(S, i, since) ==
  LET owner == S.blocks[PlaceOf(S, i)[1]].owner
  IN IF owner > since THEN ScopeOf(S, owner, since) ELSE PlaceOf(S, i)[1]

\* where the insertion point ip is in a block body
At(body, ip) ==
  IF ip = 0 THEN Len(body) + 1
  ELSE CHOOSE p \in DOMAIN body : body[p] = ip

\* the instructions block b received after instruction number since stand
\* right before ip, in the order of their creation
PlacedBefore(S, b, ip, since) ==
  LET body == S.blocks[b].body
      new == {p \in DOMAIN body : body[p] > since}
  IN \A p \in DOMAIN body :
       /\ (p \in new) = (At(body, ip) - Cardinality(new) <= p /\ p < At(body, ip))
       /\ (p \in new /\ p + 1 \in new) => body[p] < body[p + 1]

\* r is what emitExpr returned for the right-hand side of sid and R the
\* state emitStmt left: what the right-hand side created stands at the
\* cursor, what the enclosed statements created stands in the loop if the
\* right-hand side is one, and at the cursor as well if not
Nested(sid, r, R) ==
  (~Halted(R) /\ r.v # Null) =>
    LET rhs == {i \in 1..Len(R.insts) :
                  Len(Cur.insts) < i /\ i <= Len(r.s.insts)}
        enclosed == {i \in 1..Len(R.insts) : Len(r.s.insts) < i}
    IN /\ \A i \in rhs : PlaceOf(R, i)[1] = Cur.cursor.block
       /\ PlacedBefore(R, Cur.cursor.block, Cur.cursor.ip, Len(Cur.insts))
       /\ IF Kind(Stmts[sid].rhs) = "For"
          THEN /\ \A i \in enclosed : Inside(R, i, r.v.i)
               /\ PlacedBefore(R, getBody(R, r.v.i), 0, Len(r.s.insts))
          ELSE \A i \in enclosed :
                 ScopeOf(R, i, Len(r.s.insts)) = Cur.cursor.block

\* in every block but for the function's own return, the instructions
\* stand in the order of their creation
ScopeOrder(S) ==
  \A b \in DOMAIN S.blocks :
    \A p, q \in DOMAIN S.blocks[b].body :
      (p < q /\ S.blocks[b].body[q] # 1)
        => S.blocks[b].body[p] < S.blocks[b].body[q]

\* emitStmts is emitStmt on the first statement, then on the rest, from
\* the cursor the statement before left
RECURSIVE OneByOne(_, _, _)
OneByOne(S, stmts, u) ==
  IF stmts = <<>> THEN S
  ELSE OneByOne(emitStmt(S, Head(stmts), u), Tail(stmts), u)

\* C16: the instructions of the statements enclosed in a statement stand
\* in the body of the loop when its right-hand side is a loop, and in the
\* enclosing scope at the cursor when it is not; emitStmts emits the
\* statements in list order, each from the cursor the one before left, so
\* that the instructions of one scope stand in statement order.
C16_NestingAndOrder ==
  Running =>
    /\ ScopeOrder(Cur)
    /\ \A u \in Outcomes(Cur) :
         /\ \A sid \in DOMAIN Stmts :
              Nested(sid, emitExpr(Cur, Stmts[sid].rhs, u), emitStmt(Cur, sid, u))
         /\ \A stmts \in StmtLists :
              /\ emitStmts(Cur, stmts, u) = OneByOne(Cur, stmts, u)
              /\ ~Halted(emitStmts(Cur, stmts, u))
                   => /\ emitStmts(Cur, stmts, u).cursor = Cur.cursor
                      /\ PlacedBefore(emitStmts(Cur, stmts, u), Cur.cursor.block,
                                      Cur.cursor.ip, Len(Cur.insts))

\* statement 1 has been emitted with all it encloses: the inner loop and
\* the store stand in the body of the outer loop, in that order, and the
\* loop of statement 6, enclosed in the sum of statement 4, stands in the
\* body of the inner loop
C16_Witness ==
  /\ Running
  /\ {"lhsA", "lhsB", "lhsD", "lhsF"} \subseteq DOMAIN ssaBindings
  /\ ssaBindings["lhsA"].k = "iv" /\ ssaBindings["lhsB"].k = "iv"
  /\ \E st \in InstsOf(Cur, "store") :
       /\ PlaceOf(Cur, st)[1] = getBody(Cur, ssaBindings["lhsA"].i)
       /\ PlaceOf(Cur, ssaBindings["lhsB"].i)[1]
            = getBody(Cur, ssaBindings["lhsA"].i)
       /\ PlaceOf(Cur, ssaBindings["lhsB"].i)[2] < PlaceOf(Cur, st)[2]
  /\ ssaBindings["lhsF"].k = "iv"
  /\ PlaceOf(Cur, ssaBindings["lhsF"].i)[1]
       = getBody(Cur, ssaBindings["lhsB"].i)

----------------------------------------------------------------------------
\* the positions of the declared arguments of block bid that are not of
\* kind Unbound
BoundArguments(bid) ==
  {i \in DOMAIN StmtBlocks[bid].args : Kind(StmtBlocks[bid].args[i]) # "Unbound"}

\* R is the state emitBlock left for block bid, not emitted before
NewBlock(bid, R) ==
  LET irBlock == Len(Cur.blocks) + 1
      args == StmtBlocks[bid].args
  IN /\ R.blockBindings = (bid :> irBlock) @@ Cur.blockBindings
     /\ Len(R.blocks) >= irBlock
     /\ R.blocks[irBlock].owner = 0
     /\ \A b \in DOMAIN Cur.blocks : R.blocks[b] = Cur.blocks[b]
     /\ BoundArguments(bid) # {} =>
          /\ R.fatal = "cannot use bound expressions as block arguments"
          /\ R.insts = Cur.insts
          /\ \A i \in BoundArguments(bid) :
               (args[i] \in DOMAIN R.ssaBindings)
                 = (args[i] \in DOMAIN Cur.ssaBindings)
     /\ ~Halted(R) =>
          /\ BoundArguments(bid) = {}
          /\ R.blocks[irBlock].argTypes = StmtBlocks[bid].argTypes
          /\ \A i \in DOMAIN args : R.ssaBindings[args[i]] = BArgVal(irBlock, i)
          /\ \A i \in 1..Len(R.insts) :
               i > Len(Cur.insts) => ScopeOf(R, i, Len(Cur.insts)) = irBlock
          /\ PlacedBefore(R, irBlock, 0, Len(Cur.insts))
          /\ R.cursor = Cur.cursor

\* C17: emitBlock on a block not emitted before records the new IR block
\* for it before it binds an argument or emits the body, binds the i-th
\* declared argument node to the i-th argument of the new IR block, is
\* fatal if a declared argument node is not of kind Unbound, emits the
\* body in the new IR block, and returns with the cursor it was called
\* with.
C17_NewBlock ==
  Running =>
    \A bid \in DOMAIN StmtBlocks, u \in Outcomes(Cur) :
      bid \notin DOMAIN blockBindings => NewBlock(bid, emitBlock(Cur, bid, u))

\* block 1 has been emitted: its argument node is bound to the argument
\* of the IR block recorded for it, the store of its body stands there,
\* and the cursor is in the entry block
C17_Witness ==
  /\ Running
  /\ 1 \in DOMAIN blockBindings
  /\ ssaBindings["argB"] = BArgVal(blockBindings[1], 1)
  /\ blocks[blockBindings[1]].argTypes = <<IndexTy>>
  /\ \E st \in InstsOf(Cur, "store") : PlaceOf(Cur, st)[1] = blockBindings[1]
  /\ cursor.block # blockBindings[1]

----------------------------------------------------------------------------
\* The state in which emitStmt is called on the k-th statement enclosed in
\* statement outer, r being what emitExpr returned for the right-hand side
\* of outer: the left-hand side is bound, the builder is in the loop if
\* there is one, and the enclosed statements before the k-th are emitted.
\* A halted state stands for a body that is not reached.
BodyState(r, outer, k, u) ==
  IF Halted(r.s) \/ r.v = Null THEN Fatal(r.s, "no body")
  ELSE emitStmts(IF Kind(Stmts[outer].rhs) = "For"
                 THEN stepIntoLoop(bind(r.s, Stmts[outer].lhs, r.v), r.v)
                 ELSE bind(r.s, Stmts[outer].lhs, r.v),
                 SubSeq(Stmts[outer].enclosed, 1, k - 1), u)

\* in state B, in the body of another statement, the right-hand side of
\* statement inner yields no value and emitStmt returns
EarlyExit(B, inner, u) ==
  /\ ~Halted(B)
  /\ emitExpr(B, Stmts[inner].rhs, u).v = Null
  /\ ~Halted(emitStmt(B, inner, u))

\* the cursor emitStmt leaves is not the one it was called with
Lapse(B, inner, u) == emitStmt(B, inner, u).cursor # B.cursor

\* C18 as claimed: when a statement nested in the body of another yields
\* no value from its right-hand side, emitStmt returns without its restore
\* call and the cursor is not at its pre-statement position.
C18_CursorLapse ==
  Running =>
    \A outer \in DOMAIN Stmts, u \in Outcomes(Cur) :
      \A k \in DOMAIN Stmts[outer].enclosed :
        EarlyExit(BodyState(emitExpr(Cur, Stmts[outer].rhs, u), outer, k, u),
                  Stmts[outer].enclosed[k], u)
          => Lapse(BodyState(emitExpr(Cur, Stmts[outer].rhs, u), outer, k, u),
                   Stmts[outer].enclosed[k], u)

\* C18, amended: when a statement nested in the body of another yields no
\* value from its right-hand side and emitStmt returns without its restore
\* call, the cursor is still at its pre-statement position, the right-hand
\* side is a dealloc, a store or a return, and the enclosing emitStmt, if
\* it returns, leaves the cursor it was called with.
C18_NoLapse ==
  Running =>
    \A outer \in DOMAIN Stmts, u \in Outcomes(Cur) :
      \A k \in DOMAIN Stmts[outer].enclosed :
        EarlyExit(BodyState(emitExpr(Cur, Stmts[outer].rhs, u), outer, k, u),
                  Stmts[outer].enclosed[k], u)
          => /\ ~Lapse(BodyState(emitExpr(Cur, Stmts[outer].rhs, u), outer, k, u),
                       Stmts[outer].enclosed[k], u)
             /\ AllowListed(Stmts[outer].enclosed[k])
             /\ ~Halted(emitStmt(Cur, outer, u))
                  => emitStmt(Cur, outer, u).cursor = Cur.cursor

\* statement 1 has been emitted: the store of statement 3, which yields no
\* value, is the last instruction of the outer loop's body, behind the
\* inner loop, and the cursor is back before the function's return
C18_Witness ==
  /\ Running
  /\ "lhsA" \in DOMAIN ssaBindings /\ ssaBindings["lhsA"].k = "iv"
  /\ "lhsB" \in DOMAIN ssaBindings /\ "lhsC" \notin DOMAIN ssaBindings
  /\ LET body == blocks[getBody(Cur, ssaBindings["lhsA"].i)].body
     IN /\ Len(body) >= 2
        /\ insts[body[Len(body)]].op = "store"
  /\ cursor = [block |-> 1, ip |-> 1]

----------------------------------------------------------------------------
\* the instructions that define operands of instruction c were created
\* before c, and stand before it where they stand in its block
OperandsFirst(S, c) ==
  \A k \in DOMAIN S.insts[c].operands :
    S.insts[c].operands[k].k = "inst" =>
      /\ S.insts[c].operands[k].i < c
      /\ PlaceOf(S, S.insts[c].operands[k].i)[1] = PlaceOf(S, c)[1]
           => PlaceOf(S, S.insts[c].operands[k].i)[2] < PlaceOf(S, c)[2]

\* seq is the beginning of longer
Prefix(seq, longer) ==
  Len(seq) <= Len(longer) /\ seq = SubSeq(longer, 1, Len(seq))

\* emitExpr on loop node e in state S returned f, with a value; lb, ub and
\* step are what emitExpr returns for the three operands, one after the
\* other from S on.  What they created stands at the cursor in that order,
\* the loop instruction comes last, and the loop node is bound after them.
LoopLast(S, e, lb, ub, step, f) ==
  (~Halted(f.s) /\ f.v # Null) =>
    /\ f.v = IvVal(Len(f.s.insts))
    /\ f.s.insts[f.v.i].op = "affine.for"
    /\ Prefix(S.insts, lb.s.insts)
    /\ Prefix(lb.s.insts, ub.s.insts)
    /\ Prefix(ub.s.insts, step.s.insts)
    /\ step.s.insts = SubSeq(f.s.insts, 1, Len(f.s.insts) - 1)
    /\ PlacedBefore(f.s, S.cursor.block, S.cursor.ip, Len(S.insts))
    /\ OperandsFirst(f.s, f.v.i)
    /\ \A k \in 1..3 : Tree[e].children[k] \in DOMAIN step.s.ssaBindings
    /\ e \notin DOMAIN step.s.ssaBindings
    /\ f.s.ssaBindings = (e :> f.v) @@ step.s.ssaBindings

AfterStep(S, e, u, lb, ub, step) ==
  LoopLast(S, e, lb, ub, step, emitExpr(S, e, u))

AfterUb(S, e, u, lb, ub) ==
  AfterStep(S, e, u, lb, ub, emitExpr(ub.s, Tree[e].children[3], u))

AfterLb(S, e, u, lb) ==
  AfterUb(S, e, u, lb, emitExpr(lb.s, Tree[e].children[2], u))

\* every loop node without binding in S, emitted from S
LoopsLast(S, u) ==
  ~Halted(S) =>
    \A e \in ForNodes \ DOMAIN S.ssaBindings :
      AfterLb(S, e, u, emitExpr(S, Tree[e].children[1], u))

\* C19: every instruction created for an operand stands before the
\* instruction of the node that consumes it; for a loop, what emitExpr
\* newly creates for lower bound, upper bound and step stands in that
\* order before the loop instruction, and the loop node is bound only
\* after its three operands are.  Loops are emitted from the current state
\* and from the states in which the statements enclosed in a statement
\* start.
C19_OperandsBeforeConsumers ==
  Running =>
    /\ \A c \in 1..Len(insts) : OperandsFirst(Cur, c)
    /\ \A e \in ForNodes \cap DOMAIN ssaBindings :
         \A k \in 1..3 : Tree[e].children[k] \in DOMAIN ssaBindings
    /\ \A u \in Outcomes(Cur) :
         /\ LoopsLast(Cur, u)
         /\ \A outer \in DOMAIN Stmts :
              \A k \in DOMAIN Stmts[outer].enclosed :
                LoopsLast(BodyState(emitExpr(Cur, Stmts[outer].rhs, u),
                                    outer, k, u), u)

\* the inner loop of statement 2 has been emitted: the difference for its
\* lower bound and the sum for its upper bound stand in the body of the
\* outer loop, in that order, before the loop instruction that has both
\* as operands
C19_Witness ==
  /\ Running
  /\ {"lhsA", "subE", "addE", "forB"} \subseteq DOMAIN ssaBindings
  /\ insts[Bound("forB").i].operands = <<Bound("subE"), Bound("addE")>>
  /\ PlaceOf(Cur, Bound("subE").i)[1] = getBody(Cur, Bound("lhsA").i)
  /\ PlaceOf(Cur, Bound("addE").i)[1] = getBody(Cur, Bound("lhsA").i)
  /\ PlaceOf(Cur, Bound("forB").i)[1] = getBody(Cur, Bound("lhsA").i)
  /\ PlaceOf(Cur, Bound("subE").i)[2] < PlaceOf(Cur, Bound("addE").i)[2]
  /\ PlaceOf(Cur, Bound("addE").i)[2] < PlaceOf(Cur, Bound("forB").i)[2]

----------------------------------------------------------------------------
\* S is state Before, halted in bind
DoubleBinding(S, Before) ==
  /\ S.fatal = "Double binding!"
  /\ S.ssaBindings = Before.ssaBindings
  /\ S.insts = Before.insts
  /\ S.blocks = Before.blocks

\* emitStmt on statement sid in state S, where its right-hand side yields
\* a value and its left-hand side has a binding already
Rebinds(S, sid, u) ==
  (/\ ~Halted(S)
   /\ Stmts[sid].lhs \in DOMAIN S.ssaBindings
   /\ ~Halted(emitExpr(S, Stmts[sid].rhs, u).s)
   /\ emitExpr(S, Stmts[sid].rhs, u).v # Null)
    => DoubleBinding(emitStmt(S, sid, u), emitExpr(S, Stmts[sid].rhs, u).s)

\* R is the state a first emitStmt on sid left: the right-hand side is
\* bound there when it yields a value, and the second emitStmt ends in the
\* double binding with nothing created
SecondCall(sid, R, u) ==
  (~Halted(R) /\ Stmts[sid].lhs \in DOMAIN R.ssaBindings) =>
    /\ Stmts[sid].rhs \in DOMAIN R.ssaBindings
    /\ emitExpr(R, Stmts[sid].rhs, u) = Ret(R, R.ssaBindings[Stmts[sid].rhs])
    /\ DoubleBinding(emitStmt(R, sid, u), R)

\* C20: emitStmt binds the left-hand side whenever the right-hand side
\* yields a value, so emitStmt on a statement whose left-hand side is bound
\* already, and a second emitStmt on the same statement, end in the fatal
\* double binding; in the second call the right-hand side comes from the
\* bindings and no instruction is created.
C20_NotRepeatable ==
  Running =>
    \A sid \in DOMAIN Stmts, u \in Outcomes(Cur) :
      /\ Rebinds(Cur, sid, u)
      /\ SecondCall(sid, emitStmt(Cur, sid, u), u)

\* statement 1 has been emitted with what it encloses, and emitStmt on it
\* once more ends in the double binding of its left-hand side
C20_Witness ==
  /\ Running
  /\ {"lhsA", "lhsB", "lhsD", "lhsF", "forA"} \subseteq DOMAIN ssaBindings
  /\ ssaBindings["lhsA"] = ssaBindings["forA"]
  /\ emitStmt(Cur, 1, "trap").fatal = "Double binding!"
  /\ emitStmt(Cur, 1, "trap").insts = insts

----------------------------------------------------------------------------
\* the control sub-expressions of loop node e: lower bound, upper bound, step
Controls(e) == {Tree[e].children[i] : i \in DOMAIN Tree[e].children}

\* instruction i of S stands in a block of S
InTheIR(S, i) ==
  \E b \in DOMAIN S.blocks :
    \E p \in DOMAIN S.blocks[b].body : S.blocks[b].body[p] = i

\* emitExpr on loop node e returned f without a value, r being its operands
\* materialized: what materialized is bound to its value and stands in the
\* IR, nothing that was there is gone, and the loop node has no binding
NotRolledBack(e, r, f) ==
  /\ f.s = r.s
  /\ e \notin DOMAIN f.s.ssaBindings
  /\ Prefix(insts, f.s.insts)
  /\ \A i \in 1..Len(f.s.insts) : InTheIR(f.s, i)
  /\ \A n \in DOMAIN ssaBindings :
       n \in DOMAIN f.s.ssaBindings /\ f.s.ssaBindings[n] = ssaBindings[n]
  /\ \A k \in DOMAIN r.vs :
       r.vs[k] # Null =>
         /\ Tree[e].children[k] \in DOMAIN f.s.ssaBindings
         /\ f.s.ssaBindings[Tree[e].children[k]] = r.vs[k]
         /\ r.vs[k].k = "inst" => InTheIR(f.s, r.vs[k].i)

\* the operands vs of a loop are values emitFor accepts in S: bounds of
\* accepted provenance and a step defined by a constant
LegalLoop(S, vs) ==
  /\ ~Halted(S)
  /\ ~HasNull(vs)
  /\ AcceptedProvenance(S, vs[1])
  /\ AcceptedProvenance(S, vs[2])
  /\ ConstDefined(S, vs[3])

\* g is what the second emitExpr on e returns from T, the state F of the
\* failure with the missing placeholder bound: e is bound to the induction
\* variable of the one new loop, what was emitted before keeps its value
\* and its instructions, and only the operators that had no value yet got
\* an instruction
SecondSucceeds(e, F, T, g) ==
  /\ ~Halted(g.s)
  /\ g.v.k = "iv"
  /\ e \in DOMAIN g.s.ssaBindings
  /\ g.s.ssaBindings[e] = g.v
  /\ InstsOf(g.s, "affine.for") \ InstsOf(T, "affine.for") = {g.v.i}
  /\ Prefix(T.insts, g.s.insts)
  /\ \A c \in Controls(e) \cap DOMAIN F.ssaBindings :
       /\ g.s.ssaBindings[c] = F.ssaBindings[c]
       /\ c \in OpNodes => InstsFor(g.s, c) = InstsFor(F, c)
  /\ Len(g.s.insts)
       = Len(T.insts) + 1
           + Cardinality((Controls(e) \cap OpNodes) \ DOMAIN F.ssaBindings)

\* the second emitExpr on e from T, for every outcome u; First is the state
\* of a client that bound the placeholder before its first emitExpr.  The
\* second call halts where a first call would, and lowers every loop that
\* emitFor accepts
Retried(e, F, T, First) ==
  ~Halted(T) =>
    \A u \in Outcomes(T) :
      /\ emitExpr(T, e, u).s.fatal = emitExpr(First, e, u).s.fatal
      /\ (emitExpr(T, e, u).v = Null) = (emitExpr(First, e, u).v = Null)
      /\ LegalLoop(emitExprs(T, Tree[e].children, u).s,
                   emitExprs(T, Tree[e].children, u).vs)
           => SecondSucceeds(e, F, T, emitExpr(T, e, u))

\* emitExpr on loop node e returned f without a value and without halting,
\* r being its operands materialized
FailsThenSucceeds(e, r, f) ==
  (~Halted(f.s) /\ f.v = Null) =>
    /\ HasNull(r.vs)
    /\ NotRolledBack(e, r, f)
    /\ \A p \in Placeholders(e) \ DOMAIN f.s.ssaBindings,
          v \in ClientValues(f.s) :
         Placeholders(e) \ DOMAIN f.s.ssaBindings = {p}
           => Retried(e, f.s, bind(f.s, p, v), bind(Cur, p, v))

----------------------------------------------------------------------------
\* the type node e was declared with is the type of the value it is bound to
TypeConsistent(S, e) == DeclaredType(S, e) = TypeOf(S, S.ssaBindings[e])

\* C22: literal-binding type consistency.  Every node that one of the six
\* literal entry points has made and bound is declared with the type of the
\* constant it is bound to.
C22_LiteralTypes ==
  \A e \in FreshNodes(Cur) \cap DOMAIN ssaBindings : TypeConsistent(Cur, e)

====
